---- MODULE Spec2Model ----
(***************************************************************************)
(* Source resolution and timestamp detection of preq.                      *)
(*                                                                         *)
(* A log line is abstracted to its layout (which timestamp layout the line *)
(* starts with), whether the timestamp text is a valid instant, and the    *)
(* instant itself.  A regular expression is abstracted to the layout it    *)
(* captures, a timestamp format to the layout it parses.                   *)
(***************************************************************************)
EXTENDS Integers, Sequences, FiniteSets, TLC

VARIABLES
    cfg,      \* command line options and configuration file (cli.Options, config.Config)
    data,     \* the detection sample handed to NewLogFactory; in a batch, the
              \* resolved sources Resolve returns
    out,      \* results of NewLogFactory on (data, cfg), per trial budget; in a batch,
              \* the per-source failures reported to the operator
    world,    \* the file system: path -> file
    srcs,     \* one slot per location of the data source description, in Resolve's order
    pc,       \* "resolve" while Resolve runs, "run" once the engine consumes its result
    next      \* index of the location Resolve is working on

vars == <<cfg, data, out, world, srcs, pc, next>>

----------------------------------------------------------------------------
(* Bounds *)

MaxLen == 3        \* lines in a sample
MaxTries == 2      \* largest trial budget (--skip)
MaxSpecs == 2      \* entries in the configured timestamp list
SampleLines == 2   \* lines that fit the detection sample

----------------------------------------------------------------------------
(* Lines, patterns, formats *)

Line(lay, ok, ts) == [lay |-> lay, ok |-> ok, ts |-> ts]

\* Layout A with two instants, layout A with an unparsable instant, and
\* layout B.
Lines ==
    { Line("A", TRUE, 10), Line("A", TRUE, 11), Line("A", FALSE, 0), Line("B", TRUE, 12) }

RECURSIVE SeqsUpTo(_, _)
SeqsUpTo(S, n) ==
    IF n = 0 THEN { <<>> }
    ELSE LET shorter == SeqsUpTo(S, n - 1)
         IN  shorter \cup { Append(s, x) : s \in { t \in shorter : Len(t) = n - 1 }, x \in S }

\* Patterns are "pA" and "pB"; "(" is a regular expression that does not
\* compile; "" is the unset option.  The named format labels:
Formats == { "fA", "fB" }

\* A format label is a string (resolve.TimestampFmt): besides the named
\* labels the catalog holds layouts ("2006/01/02 03:04:05"), and a
\* configuration file can hold any other text, such as a misspelt name.
Layouts == { "lA" }
Misspelt == { "fAA" }

\* regexp.Compile
Compiles(pattern) == pattern # "("

\* The pattern's first capture group isolates a timestamp substring of the line.
\* The empty pattern has no capture group and isolates nothing.
Matches(pattern, line) ==
    \/ pattern = "pA" /\ line.lay = "A"
    \/ pattern = "pB" /\ line.lay = "B"

nil == [kind |-> "nil", of |-> ""]
ErrCompile(pattern) == [kind |-> "CompileError", of |-> pattern]
ErrUnknownFormat(fmt) == [kind |-> "UnknownFormat", of |-> fmt]
ErrNoMatch == [kind |-> "NoMatch", of |-> ""]
ErrDetect == [kind |-> "SniffFailed", of |-> ""]

\* timez.GetTimestampFormat: a parser for every named label; any other
\* non-empty label is taken for a layout and yields a parser too.
GetTimestampFormat(fmt) == IF fmt # "" THEN nil ELSE ErrUnknownFormat(fmt)

\* The parse callback of a format applied to the captured text of a line.  A
\* misspelt name, read as a layout, parses no timestamp.
ParseOk(fmt, line) ==
    /\ line.ok
    /\ \/ fmt \in { "fA", "lA" } /\ line.lay = "A"
       \/ fmt = "fB" /\ line.lay = "B"

NoFactory == [kind |-> "nil", pattern |-> "", format |-> ""]
RegexFactory(pattern, fmt) == [kind |-> "regex", pattern |-> pattern, format |-> fmt]
SniffFactory == [kind |-> "sniff", pattern |-> "", format |-> ""]

Result(factory, stamp, err) == [factory |-> factory, stamp |-> stamp, err |-> err]
Failure(err) == Result(NoFactory, 0, err)

----------------------------------------------------------------------------
(* timez.TryTimestampFormat *)

\* Index of the first of the lines i..last that matches and parses, 0 if none.
RECURSIVE scanLines(_, _, _, _, _)
scanLinesStopAtBadParse(pattern, fmt, lines, i, last) ==
    IF i > last THEN 0
    ELSE IF Matches(pattern, lines[i])
         THEN (IF ParseOk(fmt, lines[i]) THEN i ELSE 0)
         ELSE scanLines(pattern, fmt, lines, i + 1, last)

scanLines(pattern, fmt, lines, i, last) ==
    IF i > last THEN 0
    ELSE IF Matches(pattern, lines[i]) /\ ParseOk(fmt, lines[i]) THEN i
         ELSE scanLines(pattern, fmt, lines, i + 1, last)

Min(a, b) == IF a <= b THEN a ELSE b

TryTimestampFormat(pattern, fmt, sample, maxTries) ==
    IF ~Compiles(pattern) THEN Failure(ErrCompile(pattern))
    ELSE IF GetTimestampFormat(fmt) # nil THEN Failure(GetTimestampFormat(fmt))
    ELSE LET hit == scanLines(pattern, fmt, sample.lines, 1, Min(maxTries, Len(sample.lines)))
         IN  IF hit = 0 THEN Failure(ErrNoMatch)
             ELSE Result(RegexFactory(pattern, fmt), sample.lines[hit].ts, nil)

\* format.Detect of prequel-logmatch, the structural sniff: a function of the
\* sample alone, whose outcome is carried with the sample.
FormatDetect(sample) ==
    IF sample.sniff.ok THEN Result(SniffFactory, sample.sniff.stamp, nil)
    ELSE Failure(ErrDetect)

----------------------------------------------------------------------------
(* resolve options *)

FmtSpec(pattern, fmt) == [Pattern |-> pattern, Format |-> fmt]

\* optsT zero value
ZeroOpts ==
    [customFmt |-> "", customRegex |-> "", stampRegex |-> <<>>, window |-> 0, tries |-> 0]

WithCustomFmt(regex, fmt) == [op |-> "WithCustomFmt", regex |-> regex, fmt |-> fmt]
WithStampRegex(specs) == [op |-> "WithStampRegex", specs |-> specs]
WithWindow(window) == [op |-> "WithWindow", window |-> window]
WithTimestampTries(n) == [op |-> "WithTimestampTries", n |-> n]

\* Applying one option closure to *optsT.
ApplyOpt(opt, o) ==
    CASE opt.op = "WithCustomFmt" -> [o EXCEPT !.customFmt = opt.fmt, !.customRegex = opt.regex]
      [] opt.op = "WithStampRegex" -> [o EXCEPT !.stampRegex = opt.specs]
      [] opt.op = "WithWindow" -> [o EXCEPT !.window = opt.window]
      [] opt.op = "WithTimestampTries" -> [o EXCEPT !.tries = opt.n]

RECURSIVE applyFrom(_, _, _)
applyFrom(opts, i, o) ==
    IF i > Len(opts) THEN o ELSE applyFrom(opts, i + 1, ApplyOpt(opts[i], o))

parseOpts(opts) == applyFrom(opts, 1, ZeroOpts)

\* config.DefaultConfig: the built-in timestamp list, in priority order.
FormatCatalog == << FmtSpec("pA", "fA"), FmtSpec("pB", "fB") >>

ResolveOptsMoreThanOne(c) ==
    IF Len(c.timestamps) > 1 THEN << WithStampRegex(c.timestamps) >> ELSE <<>>

\* Config.ResolveOpts
ResolveOpts(c) ==
    IF Len(c.timestamps) > 0 THEN << WithStampRegex(c.timestamps) >> ELSE <<>>

\* The window option is not passed on.
tsOptsNoWindow(c) ==
    ResolveOpts(c)
      \o (IF c.regex # "" \/ c.format # "" THEN << WithCustomFmt(c.regex, c.format) >> ELSE <<>>)
      \o << WithTimestampTries(c.skip) >>

\* cli.tsOpts; window = -1 stands for the unset --window option.
tsOpts(c) ==
    ResolveOpts(c)
      \o (IF c.regex # "" \/ c.format # "" THEN << WithCustomFmt(c.regex, c.format) >> ELSE <<>>)
      \o (IF c.window # -1 THEN << WithWindow(c.window) >> ELSE <<>>)
      \o << WithTimestampTries(c.skip) >>

tryCustomBoth(o) == o.customFmt # "" /\ o.customRegex # ""
tryCustom(o) == o.customFmt # "" \/ o.customRegex # ""

----------------------------------------------------------------------------
(* resolve.NewLogFactory *)

\* One evaluated candidate: the custom pair, the sniff, or fallback spec idx.
Tried(cand, idx, pattern, fmt, res) ==
    [cand |-> cand, idx |-> idx, pattern |-> pattern, format |-> fmt, res |-> res]

Outcome(res, tried) ==
    [factory |-> res.factory, stamp |-> res.stamp, err |-> res.err, tried |-> tried]

\* for _, spec := range o.stampRegex { ...; if err == nil { break } }
RECURSIVE stampLoop(_, _, _, _)
RECURSIVE stampLoopNoBreak(_, _, _, _)
stampLoopNoBreak(o, sample, i, acc) ==
    IF i > Len(o.stampRegex) THEN acc
    ELSE LET spec == o.stampRegex[i]
             r == TryTimestampFormat(spec.Pattern, spec.Format, sample, o.tries)
         IN  stampLoopNoBreak(o, sample, i + 1,
                 Outcome(r, Append(acc.tried, Tried("spec", i, spec.Pattern, spec.Format, r))))

\* A later success replaces an earlier one.
RECURSIVE stampLoopLastSuccess(_, _, _, _)
stampLoopLastSuccess(o, sample, i, acc) ==
    IF i > Len(o.stampRegex) THEN acc
    ELSE LET spec == o.stampRegex[i]
             r == TryTimestampFormat(spec.Pattern, spec.Format, sample, o.tries)
             t == Append(acc.tried, Tried("spec", i, spec.Pattern, spec.Format, r))
         IN  stampLoopLastSuccess(o, sample, i + 1,
                 IF r.err = nil \/ acc.err # nil THEN Outcome(r, t)
                 ELSE [acc EXCEPT !.tried = t])

stampLoop(o, sample, i, acc) ==
    IF i > Len(o.stampRegex) THEN acc
    ELSE LET spec == o.stampRegex[i]
             r == TryTimestampFormat(spec.Pattern, spec.Format, sample, o.tries)
             acc2 == Outcome(r, Append(acc.tried, Tried("spec", i, spec.Pattern, spec.Format, r)))
         IN  IF r.err = nil THEN acc2 ELSE stampLoop(o, sample, i + 1, acc2)

\* The loop assigns a shadowed err: the outer err stays the sniff's.
NewLogFactoryShadowErr(sample, opts) ==
    LET o == parseOpts(opts) IN
    IF tryCustom(o)
    THEN LET r == TryTimestampFormat(o.customRegex, o.customFmt, sample, o.tries)
         IN  Outcome(r, << Tried("custom", 0, o.customRegex, o.customFmt, r) >>)
    ELSE LET d == FormatDetect(sample)
             first == Outcome(d, << Tried("sniff", 0, "", "", d) >>)
         IN  IF d.err = nil THEN first
             ELSE Outcome(Failure(d.err), stampLoop(o, sample, 1, first).tried)

\* The trial budget lives in a package-level counter that earlier detections
\* of the batch have drawn from.
NewLogFactorySharedBudget(sample, opts) ==
    LET p == parseOpts(opts)
        o == [p EXCEPT !.tries = @ - (next - 1)]
    IN
    IF tryCustom(o)
    THEN LET r == TryTimestampFormat(o.customRegex, o.customFmt, sample, o.tries)
         IN  Outcome(r, << Tried("custom", 0, o.customRegex, o.customFmt, r) >>)
    ELSE LET d == FormatDetect(sample)
             first == Outcome(d, << Tried("sniff", 0, "", "", d) >>)
         IN  IF d.err = nil THEN first
             ELSE LET acc == stampLoop(o, sample, 1, first)
                  IN  IF acc.err # nil THEN Outcome(Failure(acc.err), acc.tried)
                      ELSE acc

\* The error check after the loop is missing: "return factory, stamp, nil".
NewLogFactoryDropErr(sample, opts) ==
    LET o == parseOpts(opts) IN
    IF tryCustom(o)
    THEN LET r == TryTimestampFormat(o.customRegex, o.customFmt, sample, o.tries)
         IN  Outcome(r, << Tried("custom", 0, o.customRegex, o.customFmt, r) >>)
    ELSE LET d == FormatDetect(sample)
             first == Outcome(d, << Tried("sniff", 0, "", "", d) >>)
         IN  IF d.err = nil THEN first
             ELSE [stampLoop(o, sample, 1, first) EXCEPT !.err = nil]

\* The failure of the fallback list is returned together with a factory.
NewLogFactoryFactoryOnError(sample, opts) ==
    LET o == parseOpts(opts) IN
    IF tryCustom(o)
    THEN LET r == TryTimestampFormat(o.customRegex, o.customFmt, sample, o.tries)
         IN  Outcome(r, << Tried("custom", 0, o.customRegex, o.customFmt, r) >>)
    ELSE LET d == FormatDetect(sample)
             first == Outcome(d, << Tried("sniff", 0, "", "", d) >>)
         IN  IF d.err = nil THEN first
             ELSE LET acc == stampLoop(o, sample, 1, first)
                  IN  IF acc.err # nil
                      THEN Outcome(Result(SniffFactory, 0, acc.err), acc.tried)
                      ELSE acc

NewLogFactory(sample, opts) ==
    LET o == parseOpts(opts) IN
    IF tryCustom(o)
    THEN LET r == TryTimestampFormat(o.customRegex, o.customFmt, sample, o.tries)
         IN  Outcome(r, << Tried("custom", 0, o.customRegex, o.customFmt, r) >>)
    ELSE LET d == FormatDetect(sample)
             first == Outcome(d, << Tried("sniff", 0, "", "", d) >>)
         IN  IF d.err = nil THEN first
             ELSE LET acc == stampLoop(o, sample, 1, first)
                  IN  IF acc.err # nil THEN Outcome(Failure(acc.err), acc.tried)
                      ELSE acc

----------------------------------------------------------------------------
(* Detection as a function of its inputs: the sample and the configuration *)
(* are drawn once, NewLogFactory is applied under every trial budget.      *)

Samples ==
    { [lines |-> ls, sniff |-> sn] :
        ls \in SeqsUpTo(Lines, MaxLen),
        sn \in { [ok |-> FALSE, stamp |-> 0], [ok |-> TRUE, stamp |-> 13] } }

ConfigSpecs == { FmtSpec("pA", "fA"), FmtSpec("pB", "fB"), FmtSpec("(", "fA") }

\* The --regex / --format pairs: unset, a working pair, one of the two alone,
\* a pattern that does not compile, a format that does not fit the pattern.
CustomPairs ==
    { << "", "" >>, << "pA", "fA" >>, << "pA", "" >>, << "", "fA" >>,
      << "(", "fA" >>, << "pA", "fB" >> }

Configs ==
    { [regex |-> c[1], format |-> c[2], window |-> -1, skip |-> 0, timestamps |-> ts] :
        c \in CustomPairs, ts \in SeqsUpTo(ConfigSpecs, MaxSpecs) }

None == [factory |-> NoFactory, stamp |-> 0, err |-> nil, tried |-> <<>>]

DetectInit ==
    /\ cfg \in Configs
    /\ data \in Samples
    /\ out = [k \in 0..MaxTries |-> None]
    /\ world = <<>> /\ srcs = <<>> /\ pc = "detect" /\ next = 0

Detect(k) ==
    /\ out[k] = None
    /\ out' = [out EXCEPT ![k] = NewLogFactory(data, tsOpts([cfg EXCEPT !.skip = k]))]
    /\ UNCHANGED <<cfg, data, world, srcs, pc, next>>

DetectNext == \E k \in 0..MaxTries : Detect(k)

SpecDetect == DetectInit /\ [][DetectNext]_vars

----------------------------------------------------------------------------
(* resolve.Resolve and the consumption of the resolved sources *)

ErrOpen == [kind |-> "OpenError", of |-> ""]
ErrRead == [kind |-> "ReadError", of |-> ""]

\* Lines of a streamed source: layout A at three instants, and a line with
\* no timestamp.
StreamLines ==
    { Line("A", TRUE, 10), Line("A", TRUE, 11), Line("A", TRUE, 12), Line("J", FALSE, 0) }

SniffOutcomes == { [ok |-> FALSE, stamp |-> 0], [ok |-> TRUE, stamp |-> 13] }

MissingFile == [exists |-> FALSE, lines |-> <<>>, sniff |-> [ok |-> FALSE, stamp |-> 0]]

Files(n) ==
    { MissingFile } \cup
    { [exists |-> TRUE, lines |-> ls, sniff |-> sn] :
        ls \in SeqsUpTo(StreamLines, n), sn \in SniffOutcomes }

NoSample == [lines |-> <<>>, sniff |-> [ok |-> FALSE, stamp |-> 0]]

\* term: the terminal signals delivered to the consumer of the source.
Slot(name, path) ==
    [name |-> name, path |-> path, st |-> "Unopened", sample |-> NoSample,
     factory |-> NoFactory, stamp |-> 0, err |-> nil, window |-> 0,
     pos |-> 0, emitted |-> <<>>, last |-> 0, binds |-> 0, term |-> <<>>]

\* Every failure is reported as a detection failure without a name.
ReportUnnamed(s, err) ==
    [name |-> "", path |-> s.path, err |-> [kind |-> "DetectionFailed", of |-> ""]]

\* A failure as it is reported: the descriptor's name, the location, the error.
Report(s, err) == [name |-> s.name, path |-> s.path, err |-> err]

\* A descriptor contributes one source, whatever the number of its locations.
AppendResolvedOncePerName(results, s) ==
    IF \E k \in DOMAIN results : results[k].name = s.name THEN results
    ELSE Append(results, [name |-> s.name, path |-> s.path])

\* results = append(results, src): the resolved source carries the name of its
\* descriptor and reads the location it was opened from.
AppendResolved(results, s) == Append(results, [name |-> s.name, path |-> s.path])

\* The terminal signal that ends the consumption of a source.
Signal(st, err) == [signal |-> st, err |-> err]

\* One descriptor with one location, one descriptor with two locations, two
\* descriptors with one location each.
Descriptions ==
    { << Slot("a", "p1") >>,
      << Slot("a", "p1"), Slot("a", "p2") >>,
      << Slot("a", "p1"), Slot("b", "p2") >> }

\* The batches of the command line.
BatchConfigs ==
    { [caller |-> "cli", regex |-> c[1], format |-> c[2], window |-> w, skip |-> k,
       timestamps |-> ts] :
        c \in { <<"", "">>, <<"pA", "fA">>, <<"(", "fA">> },
        w \in { -1, 1 },
        k \in { 1, MaxTries },
        ts \in { <<>>, << FmtSpec("pA", "fA") >> } }

\* The batches of a caller of the resolve package that passes WithWindow and
\* nothing else; here window is the value passed.
ApiConfigs ==
    { [caller |-> "api", regex |-> "", format |-> "", window |-> w, skip |-> 0,
       timestamps |-> <<>>] :
        w \in { -1, 0 } }

\* newLogSrc(path, WithWindow(expectedWindow))
apiOpts(c) == << WithWindow(c.window) >>

\* The options the caller of the batch passes to Resolve.
BatchOpts(c) == IF c.caller = "api" THEN apiOpts(c) ELSE tsOpts(c)

Take(lines, n) == SubSeq(lines, 1, Min(n, Len(lines)))

\* The bound extraction function applied to a line: the instant, or -1.
Extract(factory, line) ==
    IF factory.kind = "regex"
    THEN (IF Matches(factory.pattern, line) /\ ParseOk(factory.format, line) THEN line.ts ELSE -1)
    ELSE IF factory.kind = "sniff" /\ line.ok THEN line.ts
    ELSE -1

Init ==
    /\ cfg \in BatchConfigs \cup ApiConfigs
    /\ srcs \in Descriptions
    /\ world \in IF Len(srcs) = 1 THEN [ {"p1"} -> Files(MaxLen) ]
                 ELSE [ {"p1", "p2"} -> Files(MaxLen - 2) ]
    /\ pc = "resolve"
    /\ next = 1
    /\ data = <<>>
    /\ out = {}

\* newLogSrc, first half: open the location and read the detection sample.
OpenSrc ==
    /\ pc = "resolve"
    /\ next <= Len(srcs)
    /\ srcs[next].st = "Unopened"
    /\ LET file == world[srcs[next].path] IN
       IF file.exists
       THEN /\ srcs' = [srcs EXCEPT ![next].st = "Detecting",
                                    ![next].sample = [lines |-> Take(file.lines, SampleLines),
                                                      sniff |-> file.sniff]]
            /\ next' = next
            /\ out' = out
       ELSE /\ srcs' = [srcs EXCEPT ![next].st = "OpenFailed", ![next].err = ErrOpen]
            /\ next' = next + 1
            /\ out' = out \cup { Report(srcs[next], ErrOpen) }
    /\ UNCHANGED <<cfg, data, world, pc>>

\* newLogSrc, second half: bind an extraction function or fail the source.
DetectSrc ==
    /\ pc = "resolve"
    /\ next <= Len(srcs)
    /\ srcs[next].st = "Detecting"
    /\ LET r == NewLogFactory(srcs[next].sample, BatchOpts(cfg)) IN
       IF r.err = nil
       THEN /\ srcs' = [srcs EXCEPT ![next].st = "Streaming",
                                    ![next].factory = r.factory,
                                    ![next].stamp = r.stamp,
                                    ![next].window = parseOpts(BatchOpts(cfg)).window,
                                    ![next].binds = @ + 1]
            /\ data' = AppendResolved(data, srcs[next])
            /\ out' = out
       ELSE /\ srcs' = [srcs EXCEPT ![next].st = "Failed", ![next].err = r.err]
            /\ data' = data
            /\ out' = out \cup { Report(srcs[next], r.err) }
    /\ next' = next + 1
    /\ UNCHANGED <<cfg, world, pc>>

\* Resolve returns; the engine starts consuming the resolved sources.
ResolveReturn ==
    /\ pc = "resolve"
    /\ next > Len(srcs)
    /\ pc' = "run"
    /\ UNCHANGED <<cfg, data, out, world, srcs, next>>

\* lastEmittedTimestamp follows the record read last, older or not.
advanceToLatestRead(last, ts) == ts

\* Advancing lastEmittedTimestamp: the latest instant emitted so far.
advance(last, ts) == IF ts > last THEN ts ELSE last

\* The consumer reads the next line of source i and emits its record.
ReadLine(i) ==
    /\ pc = "run"
    /\ srcs[i].st = "Streaming"
    /\ srcs[i].pos < Len(world[srcs[i].path].lines)
    /\ LET line == world[srcs[i].path].lines[srcs[i].pos + 1]
           ts == Extract(srcs[i].factory, line)
       IN  srcs' = [srcs EXCEPT ![i].pos = @ + 1,
                                ![i].emitted = IF ts = -1 THEN @ ELSE Append(@, ts),
                                ![i].last = IF ts = -1 THEN @ ELSE advance(@, ts)]
    /\ UNCHANGED <<cfg, data, out, world, pc, next>>

\* The reader blocks at the end of the input and never reports it.
EndOfInputBlocks(i) ==
    /\ pc = "run"
    /\ srcs[i].st = "Streaming"
    /\ srcs[i].pos = Len(world[srcs[i].path].lines)
    /\ UNCHANGED vars

\* Clean end of input.
EndOfInput(i) ==
    /\ pc = "run"
    /\ srcs[i].st = "Streaming"
    /\ srcs[i].pos = Len(world[srcs[i].path].lines)
    /\ srcs' = [srcs EXCEPT ![i].st = "Exhausted",
                             ![i].term = Append(@, Signal("Exhausted", nil))]
    /\ UNCHANGED <<cfg, data, out, world, pc, next>>

\* The failure discards what the source had emitted.
ReadErrorRetract(i) ==
    /\ pc = "run"
    /\ srcs[i].st = "Streaming"
    /\ srcs' = [srcs EXCEPT ![i].st = "Failed", ![i].err = ErrRead,
                             ![i].emitted = <<>>, ![i].last = 0,
                             ![i].term = Append(@, Signal("Failed", ErrRead))]
    /\ out' = out \cup { Report(srcs[i], ErrRead) }
    /\ UNCHANGED <<cfg, data, world, pc, next>>

\* A read or decompression error while streaming.
ReadError(i) ==
    /\ pc = "run"
    /\ srcs[i].st = "Streaming"
    /\ srcs' = [srcs EXCEPT ![i].st = "Failed", ![i].err = ErrRead,
                             ![i].term = Append(@, Signal("Failed", ErrRead))]
    /\ out' = out \cup { Report(srcs[i], ErrRead) }
    /\ UNCHANGED <<cfg, data, world, pc, next>>

Next ==
    \/ OpenSrc
    \/ DetectSrc
    \/ ResolveReturn
    \/ \E i \in DOMAIN srcs : ReadLine(i)
    \/ \E i \in DOMAIN srcs : EndOfInput(i)
    \/ \E i \in DOMAIN srcs : ReadError(i)

Spec == Init /\ [][Next]_vars

\* The slots a data source description can have.
Slots == 1..2

\* One pull of the consumer of source i: a line, or the end of the input.
Pull(i) == ReadLine(i) \/ EndOfInput(i)

\* Batches without a custom override, with a window, a fallback list and the
\* largest trial budget, over files the structural sniff does not recognise.
LiveInit ==
    /\ Init
    /\ cfg.regex = "" /\ cfg.window = 1 /\ cfg.timestamps # <<>> /\ cfg.skip = MaxTries
    /\ \A p \in DOMAIN world : ~world[p].sniff.ok

\* Resolve runs to its end, and the consumer of every source keeps pulling.
\* A read error may strike at any pull, and is never bound to.
SpecLive ==
    /\ LiveInit /\ [][Next]_vars
    /\ WF_vars(OpenSrc \/ DetectSrc \/ ResolveReturn)
    /\ \A i \in Slots : WF_vars(i \in DOMAIN srcs /\ Pull(i))

----------------------------------------------------------------------------
(* Opening a source: the bytes on disk, the gzip peek, the detection        *)
(* sample, the closer, and the workers that read the opened sources.        *)
(* Here world maps a path to the bytes stored under it, srcs holds one      *)
(* handle per source, and out is the progress reporter's last reading.      *)

MaxBytes == 3      \* bytes of content of a source
SampleBytes == 2   \* bytes that fit the detection sample
MaxCloses == 2     \* calls of the closer of one source

Bytes == { "1f", "8b", "a", "nl" }

\* buf[0] == 0x1f && buf[1] == 0x8b
Magic == << "1f", "8b" >>
HasMagic(raw) == Len(raw) >= 2 /\ SubSeq(raw, 1, 2) = Magic

\* A gzip member: the magic, the method byte, the deflated content, the
\* checksum of the content.
GzipHeader == Magic \o << "a" >>
Deflate(b) == CASE b = "1f" -> "8b" [] b = "8b" -> "a" [] b = "a" -> "nl" [] b = "nl" -> "1f"
InflateByte(b) == CASE b = "8b" -> "1f" [] b = "a" -> "8b" [] b = "nl" -> "a" [] b = "1f" -> "nl"
Checksum(c) == IF Len(c) % 2 = 0 THEN "a" ELSE "nl"

\* gzip.NewWriter(f); gz.Write(content); gz.Close()
GzipWrite(c) ==
    GzipHeader \o [ k \in 1..Len(c) |-> Deflate(c[k]) ] \o << Checksum(c) >>

\* gzip.NewReader on a file positioned at offset start: reads the header.
GzipHeaderOk(raw, start) ==
    /\ Len(raw) >= start + Len(GzipHeader)
    /\ SubSeq(raw, start + 1, start + Len(GzipHeader)) = GzipHeader

\* What a gzip reader yields from the bytes after the header: the inflated
\* content, then the end of the input if the checksum fits, an error if not.
Inflate(raw, start) ==
    LET payload == SubSeq(raw, start + Len(GzipHeader) + 1, Len(raw)) IN
    IF payload = <<>> THEN [bytes |-> <<>>, ok |-> FALSE]
    ELSE LET c == [ k \in 1..(Len(payload) - 1) |-> InflateByte(payload[k]) ]
         IN  [bytes |-> c, ok |-> payload[Len(payload)] = Checksum(c)]

ErrEOF == [kind |-> "EOF", of |-> ""]
ErrGzip == [kind |-> "GzipHeader", of |-> ""]

NoReader == [kind |-> "none", start |-> 0]

Opened(err, reader, fileOpen, gzOpen) ==
    [err |-> err, reader |-> reader, fileOpen |-> fileOpen, gzOpen |-> gzOpen]

\* The file offset is left where the two-byte read put it.
OpenRulesFileNoSeek(file) ==
    IF ~file.exists THEN Opened(ErrOpen, NoReader, FALSE, FALSE)
    ELSE IF Len(file.raw) = 0 THEN Opened(ErrEOF, NoReader, FALSE, FALSE)
    ELSE LET offset == Min(2, Len(file.raw)) IN
         IF HasMagic(file.raw)
         THEN (IF GzipHeaderOk(file.raw, offset)
               THEN Opened(nil, [kind |-> "gzip", start |-> offset], TRUE, TRUE)
               ELSE Opened(ErrGzip, NoReader, FALSE, FALSE))
         ELSE Opened(nil, [kind |-> "file", start |-> offset], TRUE, FALSE)

\* Gzip is recognised by the name of the file.
OpenRulesFileByName(file) ==
    IF ~file.exists THEN Opened(ErrOpen, NoReader, FALSE, FALSE)
    ELSE IF Len(file.raw) = 0 THEN Opened(ErrEOF, NoReader, FALSE, FALSE)
    ELSE IF file.name = "f.gz"
         THEN (IF GzipHeaderOk(file.raw, 0)
               THEN Opened(nil, [kind |-> "gzip", start |-> 0], TRUE, TRUE)
               ELSE Opened(ErrGzip, NoReader, FALSE, FALSE))
         ELSE Opened(nil, [kind |-> "file", start |-> 0], TRUE, FALSE)

\* utils.OpenRulesFile: os.Open; file.Read of two bytes, which fails with EOF
\* on a file of no bytes; file.Seek to the start; gzip.NewReader if the two
\* bytes are the magic.  Every failing path closes the file.
OpenRulesFile(file) ==
    IF ~file.exists THEN Opened(ErrOpen, NoReader, FALSE, FALSE)
    ELSE IF Len(file.raw) = 0 THEN Opened(ErrEOF, NoReader, FALSE, FALSE)
    ELSE LET offset == 0 IN
         IF HasMagic(file.raw)
         THEN (IF GzipHeaderOk(file.raw, offset)
               THEN Opened(nil, [kind |-> "gzip", start |-> offset], TRUE, TRUE)
               ELSE Opened(ErrGzip, NoReader, FALSE, FALSE))
         ELSE Opened(nil, [kind |-> "file", start |-> offset], TRUE, FALSE)

\* Only the decompressor is closed.
cleanupGzOnly(s) ==
    IF s.reader.kind = "gzip" THEN [s EXCEPT !.gzOpen = FALSE]
    ELSE [s EXCEPT !.fileOpen = FALSE]

\* cleanup: func() { file.Close() }, for gzip func() { gzReader.Close();
\* file.Close() }.  The closure returns nothing: the error of a second
\* file.Close() is dropped.
cleanup(s) == [s EXCEPT !.gzOpen = FALSE, !.fileOpen = FALSE]

\* What the reader of a source yields in all: the bytes, and whether they end
\* with the end of the input or with an error.
ReaderStream(file, reader) ==
    IF reader.kind = "gzip" THEN Inflate(file.raw, reader.start)
    ELSE [bytes |-> SubSeq(file.raw, reader.start + 1, Len(file.raw)), ok |-> TRUE]

\* The compressed byte count is reported for a gzip file.
SizeOnDisk(file, reader) == Len(file.raw)

\* LogData.Size: -1 for a gzip reader and for a pipe, else the size of the file.
Size(file, reader) ==
    IF reader.kind \in { "gzip", "pipe" } THEN -1 ELSE Len(file.raw)

Stored(name, c, how) ==
    [exists |-> TRUE, name |-> name, content |-> c, stored |-> how,
     raw |-> CASE how = "gzip" -> GzipWrite(c)
               [] how = "cut" -> SubSeq(GzipWrite(c), 1, Len(GzipWrite(c)) - 1)
               [] OTHER -> c]

NoFile == [exists |-> FALSE, name |-> "f.log", content |-> <<>>, stored |-> "plain", raw |-> <<>>]

\* Files written plain, gzip-compressed, or gzip-compressed and cut short,
\* under a name with or without the gzip suffix.
FilesOnDisk ==
    { NoFile } \cup
    { Stored(name, c, how) :
        name \in { "f.log", "f.gz" }, c \in SeqsUpTo(Bytes, MaxBytes),
        how \in { "plain", "gzip", "cut" } }

\* The files of a batch of two sources.
PairFiles ==
    { Stored("f.log", c, how) :
        c \in SeqsUpTo({ "a" }, MaxBytes - 1), how \in { "plain", "gzip" } }

Pipes == { Stored("-", c, "pipe") : c \in SeqsUpTo(Bytes, MaxBytes) }

Handle(name, origin, path) ==
    [name |-> name, origin |-> origin, path |-> path, st |-> "Unopened",
     reader |-> NoReader, fileOpen |-> FALSE, gzOpen |-> FALSE, size |-> 0,
     buf |-> <<>>, rpos |-> 0, got |-> <<>>, err |-> nil,
     closes |-> 0, cerr |-> nil, busy |-> {}]

OpenInit ==
    /\ \/ /\ srcs = << Handle("a", "file", "p1") >>
          /\ world \in [ {"p1"} -> FilesOnDisk ]
       \/ /\ srcs = << Handle("stdin", "stdin", "-") >>
          /\ world \in [ {"-"} -> Pipes ]
       \/ /\ srcs = << Handle("a", "file", "p1"), Handle("b", "file", "p2") >>
          /\ world \in [ {"p1", "p2"} -> PairFiles ]
    /\ cfg = ZeroOpts
    /\ data = NoSample
    /\ out = 0
    /\ pc = "resolve"
    /\ next = 1

\* The sample is read and not replayed: the consumer starts behind it.
SampleReadConsumes(s, file) ==
    LET stream == ReaderStream(file, s.reader)
        n == Min(SampleBytes, Len(stream.bytes))
    IN  IF ~stream.ok /\ Len(stream.bytes) < SampleBytes
        THEN [cleanup(s) EXCEPT !.st = "OpenFailed", !.err = ErrOpen]
        ELSE [s EXCEPT !.st = "Detecting", !.buf = <<>>, !.rpos = n]

\* newLogSrc reads the detection sample from the opened reader and keeps it
\* for the consumer.  A compressed stream that breaks within the sample fails
\* the open.
SampleRead(s, file) ==
    LET stream == ReaderStream(file, s.reader)
        n == Min(SampleBytes, Len(stream.bytes))
    IN  IF ~stream.ok /\ Len(stream.bytes) < SampleBytes
        THEN [cleanup(s) EXCEPT !.st = "OpenFailed", !.err = ErrOpen]
        ELSE [s EXCEPT !.st = "Detecting", !.buf = SubSeq(stream.bytes, 1, n), !.rpos = n]

\* newLogSrc and PipeStdin, up to detection: open the origin, read the sample.
OpenBytes ==
    /\ pc = "resolve"
    /\ next <= Len(srcs)
    /\ srcs[next].st = "Unopened"
    /\ LET s == srcs[next]
           file == world[s.path]
           o == IF s.origin = "stdin"
                THEN Opened(nil, [kind |-> "pipe", start |-> 0], FALSE, FALSE)
                ELSE OpenRulesFile(file)
       IN  IF o.err # nil
           THEN /\ srcs' = [srcs EXCEPT ![next] = [s EXCEPT !.st = "OpenFailed", !.err = o.err]]
                /\ next' = next + 1
           ELSE LET h == [s EXCEPT !.reader = o.reader, !.fileOpen = o.fileOpen,
                                    !.gzOpen = o.gzOpen, !.size = Size(file, o.reader)]
                    t == SampleRead(h, file)
                IN  /\ srcs' = [srcs EXCEPT ![next] = t]
                    /\ next' = IF t.st = "OpenFailed" THEN next + 1 ELSE next
    /\ UNCHANGED <<cfg, data, out, world, pc>>

\* Detection on the sample, either outcome (SpecDetect settles which).
DetectBytes ==
    /\ pc = "resolve"
    /\ next <= Len(srcs)
    /\ srcs[next].st = "Detecting"
    /\ \E ok \in BOOLEAN :
          srcs' = [srcs EXCEPT ![next].st = IF ok THEN "Streaming" ELSE "Failed",
                               ![next].err = IF ok THEN nil ELSE ErrNoMatch]
    /\ next' = next + 1
    /\ UNCHANGED <<cfg, data, out, world, pc>>

ResolveDone ==
    /\ pc = "resolve"
    /\ next > Len(srcs)
    /\ pc' = "run"
    /\ UNCHANGED <<cfg, data, out, world, srcs, next>>

\* Any worker reads any source.
AssignedAny(w, i) == TRUE

\* One worker per resolved source.
Assigned(w, i) == w = i

\* Worker w enters a read of source i.
ReadBegin(w, i) ==
    /\ pc = "run"
    /\ Assigned(w, i)
    /\ srcs[i].st = "Streaming"
    /\ srcs[i].closes = 0
    /\ \A j \in DOMAIN srcs : w \notin srcs[j].busy
    /\ srcs' = [srcs EXCEPT ![i].busy = @ \cup { w }]
    /\ UNCHANGED <<cfg, data, out, world, pc, next>>

\* The read returns: a byte of the kept sample, a byte of the reader behind
\* it, the end of the input, or the reader's error.
ReadEnd(w, i) ==
    /\ pc = "run"
    /\ w \in srcs[i].busy
    /\ LET s == srcs[i]
           stream == ReaderStream(world[s.path], s.reader)
           idle == [s EXCEPT !.busy = @ \ { w }]
       IN  srcs' = [srcs EXCEPT ![i] =
               IF s.st # "Streaming" THEN idle
               ELSE IF Len(s.got) < Len(s.buf)
                    THEN [idle EXCEPT !.got = Append(@, s.buf[Len(s.got) + 1])]
               ELSE IF s.rpos < Len(stream.bytes)
                    THEN [idle EXCEPT !.got = Append(@, stream.bytes[s.rpos + 1]),
                                      !.rpos = @ + 1]
               ELSE IF stream.ok THEN [idle EXCEPT !.st = "Exhausted"]
               ELSE [idle EXCEPT !.st = "Failed", !.err = ErrRead]]
    /\ UNCHANGED <<cfg, data, out, world, pc, next>>

\* The consumer calls the closer of source i: on exhaustion, on a failure,
\* to cancel, or once more.
CloseSrc(i) ==
    /\ pc = "run"
    /\ srcs[i].st \notin { "Unopened", "OpenFailed" }
    /\ srcs[i].busy = {}
    /\ srcs[i].closes < MaxCloses
    /\ srcs' = [srcs EXCEPT ![i] = [cleanup(srcs[i]) EXCEPT !.closes = @ + 1]]
    /\ UNCHANGED <<cfg, data, out, world, pc, next>>

RECURSIVE Processed(_)
Processed(n) == IF n = 0 THEN 0 ELSE Len(srcs[n].got) + Processed(n - 1)

\* The progress reporter loads the shared counter: u.Lines.Store(lines.Load()).
LinesTracker ==
    /\ pc = "run"
    /\ out # Processed(Len(srcs))
    /\ out' = Processed(Len(srcs))
    /\ UNCHANGED <<cfg, data, world, srcs, pc, next>>

OpenNext ==
    \/ OpenBytes
    \/ DetectBytes
    \/ ResolveDone
    \/ \E w, i \in DOMAIN srcs : ReadBegin(w, i)
    \/ \E w, i \in DOMAIN srcs : ReadEnd(w, i)
    \/ \E i \in DOMAIN srcs : CloseSrc(i)
    \/ LinesTracker

SpecOpen == OpenInit /\ [][OpenNext]_vars

----------------------------------------------------------------------------
(* Properties of detection *)

HasCustom == cfg.regex # "" \/ cfg.format # ""
Ran(k) == out[k] # None
NumSpecs == Len(cfg.timestamps)

\* Direct reading of "one of the first maxTries lines matches and parses".
Qualifying(pattern, fmt, k) ==
    { j \in 1..Min(k, Len(data.lines)) :
        Matches(pattern, data.lines[j]) /\ ParseOk(fmt, data.lines[j]) }

Earliest(S) == CHOOSE j \in S : \A i \in S : j <= i

\* C1: with a custom pattern or a custom format set, the custom pair is the
\* only candidate evaluated; its result, success or failure, is the result of
\* the call, and no sniff or fallback entry is consulted.
C1_CustomOverrideOnly ==
    \A k \in 0..MaxTries :
        (Ran(k) /\ HasCustom) =>
            /\ Len(out[k].tried) = 1
            /\ out[k].tried[1].cand = "custom"
            /\ out[k].tried[1].pattern = cfg.regex
            /\ out[k].tried[1].format = cfg.format
            /\ out[k].err = out[k].tried[1].res.err
            /\ out[k].factory = out[k].tried[1].res.factory
            /\ (out[k].err # nil => out[k].factory = NoFactory)
            /\ (out[k].err = nil => out[k].factory = RegexFactory(cfg.regex, cfg.format))

\* The custom pair failed although a configured fallback entry matches the sample.
C1_Witness ==
    \E k \in 0..MaxTries :
        /\ Ran(k) /\ HasCustom /\ out[k].err # nil
        /\ \E i \in 1..NumSpecs :
              Qualifying(cfg.timestamps[i].Pattern, cfg.timestamps[i].Format, k) # {}

\* C2: without a custom override the candidates are evaluated in the order
\* sniff, fallback 1, fallback 2, ...; evaluation stops at the first success,
\* whose result is returned, and continues past every failure.
C2_FirstSuccessInOrder ==
    \A k \in 0..MaxTries :
        (Ran(k) /\ ~HasCustom) =>
            LET t == out[k].tried
                n == Len(t)
            IN  /\ n >= 1 /\ n <= NumSpecs + 1
                /\ t[1].cand = "sniff"
                /\ \A i \in 2..n :
                      /\ t[i].cand = "spec" /\ t[i].idx = i - 1
                      /\ t[i].pattern = cfg.timestamps[i - 1].Pattern
                      /\ t[i].format = cfg.timestamps[i - 1].Format
                /\ \A i \in 1..(n - 1) : t[i].res.err # nil
                /\ (t[n].res.err # nil => n = NumSpecs + 1)
                /\ (t[n].res.err = nil =>
                      /\ out[k].err = nil
                      /\ out[k].factory = t[n].res.factory
                      /\ out[k].stamp = t[n].res.stamp)

\* The first fallback entry succeeded and the second was left untried.
C2_Witness ==
    \E k \in 0..MaxTries :
        /\ Ran(k) /\ ~HasCustom /\ NumSpecs = 2
        /\ Len(out[k].tried) = 2 /\ out[k].err = nil
        /\ Qualifying(cfg.timestamps[2].Pattern, cfg.timestamps[2].Format, k) # {}

\* C5: TryTimestampFormat succeeds exactly when one of the first maxTries
\* lines matches the pattern and parses under the format, and then returns the
\* instant of the earliest such line.
C5_TryFormatFirstQualifyingLine ==
    \A k \in 0..MaxTries :
        \A i \in DOMAIN out[k].tried :
            LET e == out[k].tried[i]
                Q == Qualifying(e.pattern, e.format, k)
            IN  e.cand # "sniff" =>
                    /\ (e.res.err = nil <=> Q # {})
                    /\ (Q # {} =>
                          /\ e.res.stamp = data.lines[Earliest(Q)].ts
                          /\ e.res.factory = RegexFactory(e.pattern, e.format))
                    /\ (Q = {} => e.res.factory = NoFactory)

\* Line 1 matches but does not parse and line 2 qualifies: budget 1 fails,
\* budget 2 skips line 1 and succeeds on line 2.
C5_Witness ==
    /\ HasCustom /\ Ran(1) /\ Ran(2)
    /\ Len(data.lines) >= 2
    /\ Matches(cfg.regex, data.lines[1]) /\ ~ParseOk(cfg.format, data.lines[1])
    /\ out[1].err = ErrNoMatch
    /\ out[2].err = nil /\ out[2].stamp = data.lines[2].ts

\* Every candidate of the no-override path fails on the sample under budget k.
AllCandidatesFail(k) ==
    /\ FormatDetect(data).err # nil
    /\ \A i \in 1..NumSpecs :
          TryTimestampFormat(cfg.timestamps[i].Pattern, cfg.timestamps[i].Format, data, k).err # nil

\* C6: when every candidate fails, no extraction function is returned and the
\* error is the one of the last candidate tried (the last fallback entry, or
\* the sniff when the fallback list is empty).
C6_AllFailLastError ==
    \A k \in 0..MaxTries :
        (Ran(k) /\ ~HasCustom /\ AllCandidatesFail(k)) =>
            /\ out[k].factory = NoFactory
            /\ out[k].stamp = 0
            /\ out[k].err # nil
            /\ out[k].err =
                  IF NumSpecs = 0 THEN FormatDetect(data).err
                  ELSE TryTimestampFormat(cfg.timestamps[NumSpecs].Pattern,
                                          cfg.timestamps[NumSpecs].Format, data, k).err

\* Sniff and two fallback entries failed, the last with an error of its own kind.
C6_Witness ==
    \E k \in 0..MaxTries :
        /\ Ran(k) /\ ~HasCustom /\ AllCandidatesFail(k) /\ NumSpecs = 2
        /\ out[k].err = ErrCompile("(")
        /\ out[k].tried[2].res.err = ErrNoMatch

\* The first fallback entry, in list order, with a qualifying line within budget k; 0 if none.
FirstMatching(k) ==
    IF \E i \in 1..NumSpecs : Qualifying(cfg.timestamps[i].Pattern, cfg.timestamps[i].Format, k) # {}
    THEN Earliest({ i \in 1..NumSpecs :
                      Qualifying(cfg.timestamps[i].Pattern, cfg.timestamps[i].Format, k) # {} })
    ELSE 0

\* C7 as stated: with no override and no configured timestamp list, a sample
\* the sniff rejects but a built-in catalog entry matches is still detected.
C7_DefaultsToCatalog ==
    \A k \in 0..MaxTries :
        ( /\ Ran(k) /\ ~HasCustom /\ NumSpecs = 0 /\ ~data.sniff.ok
          /\ \E i \in 1..Len(FormatCatalog) :
                Qualifying(FormatCatalog[i].Pattern, FormatCatalog[i].Format, k) # {} )
        => out[k].err = nil

\* C7 amended: the fallback list is exactly the configured timestamp list.
\* With an empty list and a failing sniff nothing else is tried and the call
\* fails with the sniff's error; with a non-empty list (such as the built-in
\* catalog the default configuration carries) the first entry in list order
\* with a qualifying line is bound.
C7_FallbackIsConfiguredList ==
    \A k \in 0..MaxTries :
        (Ran(k) /\ ~HasCustom /\ ~data.sniff.ok) =>
            /\ (NumSpecs = 0 =>
                  /\ out[k].err = ErrDetect
                  /\ out[k].factory = NoFactory
                  /\ Len(out[k].tried) = 1)
            /\ (FirstMatching(k) # 0 =>
                  /\ out[k].err = nil
                  /\ out[k].factory = RegexFactory(cfg.timestamps[FirstMatching(k)].Pattern,
                                                   cfg.timestamps[FirstMatching(k)].Format))
            /\ (FirstMatching(k) = 0 => out[k].err # nil)

\* The configuration carries the built-in catalog, the sniff failed, and the
\* second catalog entry was bound.
C7_Witness ==
    \E k \in 0..MaxTries :
        /\ Ran(k) /\ ~HasCustom /\ ~data.sniff.ok
        /\ cfg.timestamps = FormatCatalog
        /\ out[k].factory = RegexFactory("pB", "fB")

----------------------------------------------------------------------------
(* Properties of resolved sources *)

\* The window the caller configured: the value of --window, 0 when the
\* option is unset; for a caller of the package, the value passed to WithWindow.
ConfiguredWindow ==
    IF cfg.caller = "api" THEN cfg.window
    ELSE IF cfg.window = -1 THEN 0 ELSE cfg.window

\* Instants the consumer may ask about.
Times == 8..14

\* The floor the consumer derives from a source: the latest emitted instant minus the window.
ClosedFloor(s) == s.last - s.window

\* The consumer treats T as closed for source s.
Closed(s, T) == s.emitted # <<>> /\ T <= ClosedFloor(s)

\* Source i is the three-event source t = 10, 10 + W, 10 + 2W, every line of
\* which its extraction function reads.
ThreeEvent(i) ==
    /\ Len(world[srcs[i].path].lines) = 3
    /\ \A j \in 1..3 :
          /\ world[srcs[i].path].lines[j].ts = 10 + (j - 1) * ConfiguredWindow
          /\ Extract(srcs[i].factory, world[srcs[i].path].lines[j]) # -1

ClosedOnlyAfterLaterEvent ==
    \A i \in DOMAIN srcs : \A T \in Times :
        Closed(srcs[i], T) =>
            \E j \in DOMAIN srcs[i].emitted : srcs[i].emitted[j] >= T + ConfiguredWindow

Transitions ==
    { << "Detecting", "Streaming" >>, << "Detecting", "Failed" >>,
      << "Streaming", "Exhausted" >>, << "Streaming", "Failed" >> }

\* A location becomes a source in Detecting when it is opened.
Entries == { << "Unopened", "Detecting" >>, << "Unopened", "OpenFailed" >> }

\* C4: a source only takes the transitions Detecting->Streaming,
\* Detecting->Failed, Streaming->Exhausted, Streaming->Failed; Exhausted and
\* Failed are left by no step; an extraction function is bound at most once,
\* on Detecting->Streaming, and records are emitted only with one bound.
C4_SourceStateMachine ==
    [][ \A i \in DOMAIN srcs :
          /\ srcs[i].st # srcs'[i].st =>
                << srcs[i].st, srcs'[i].st >> \in Transitions \cup Entries
          /\ srcs[i].factory # srcs'[i].factory =>
                /\ srcs[i].st = "Detecting" /\ srcs'[i].st = "Streaming"
                /\ srcs[i].binds = 0 /\ srcs'[i].binds = 1
                /\ srcs[i].emitted = <<>>
          /\ srcs'[i].binds <= 1
          /\ (srcs'[i].st \in { "Streaming", "Exhausted" } =>
                srcs'[i].binds = 1 /\ srcs'[i].factory # NoFactory)
          /\ (srcs[i].emitted # srcs'[i].emitted =>
                srcs[i].st = "Streaming" /\ srcs[i].factory # NoFactory
                /\ srcs'[i].factory = srcs[i].factory)
      ]_vars

\* A source that was bound, streamed records and then failed on a read
\* error, next to one that was exhausted.
C4_Witness ==
    /\ \E i \in DOMAIN srcs :
          srcs[i].st = "Failed" /\ srcs[i].err = ErrRead /\ srcs[i].emitted # <<>>
    /\ \E i \in DOMAIN srcs : srcs[i].st = "Exhausted" /\ srcs[i].emitted # <<>>

Detected(s) == s.st \in { "Streaming", "Exhausted", "Failed" }

\* What detection returned for a source: format, first instant, error.
DetectOutcome(s) ==
    << s.factory, s.stamp, IF s.binds = 1 THEN nil ELSE s.err >>

C10_CompileErrorBeforeAnySource ==
    ~Compiles(cfg.regex) =>
        /\ \A i \in DOMAIN srcs : srcs[i].st \in { "Unopened", "OpenFailed" }
        /\ Cardinality({ i \in DOMAIN srcs : srcs[i].err.kind = "CompileError" }) <= 1

IsPrefix(s, t) == Len(s) <= Len(t) /\ SubSeq(t, 1, Len(s)) = s

\* C11: a read or decompression error on a Streaming source leaves the
\* sequence of records the source has emitted as it was, makes the source
\* Failed and surfaces the read error to the caller; no step ever retracts,
\* reorders or alters an emitted record.
C11_ReadErrorKeepsEmitted ==
    [][ \A i \in DOMAIN srcs :
          /\ IsPrefix(srcs[i].emitted, srcs'[i].emitted)
          /\ (srcs[i].st = "Streaming" /\ srcs'[i].st = "Failed") =>
                /\ srcs'[i].emitted = srcs[i].emitted
                /\ srcs'[i].last = srcs[i].last
                /\ srcs'[i].err = ErrRead
                /\ srcs'[i].term = << Signal("Failed", ErrRead) >>
                /\ Report(srcs[i], ErrRead) \in out'
      ]_vars

\* A source failed on a read error after it had emitted two records.
C11_Witness ==
    \E i \in DOMAIN srcs :
        /\ srcs[i].st = "Failed" /\ srcs[i].err = ErrRead
        /\ Len(srcs[i].emitted) = 2
        /\ srcs[i].pos < Len(world[srcs[i].path].lines)

Terminal(s) == s.st \in { "Exhausted", "Failed" }

\* The terminal signal a source in its present state has delivered, if any.
SignalDue(s) ==
    IF s.st = "Exhausted" THEN << Signal("Exhausted", nil) >>
    ELSE IF s.st = "Failed" /\ s.binds = 1 THEN << Signal("Failed", s.err) >>
    ELSE <<>>

\* C12: with finite inputs and consumers that keep pulling, every resolved
\* source reaches Exhausted or Failed; its consumption ends with exactly one
\* terminal signal, which carries the final error when the source Failed, and
\* after the signal no record is delivered and nothing more is read.
C12_ConsumptionTerminates ==
    /\ \A i \in Slots :
          (i \in DOMAIN srcs /\ srcs[i].binds = 1) ~> (i \in DOMAIN srcs /\ Terminal(srcs[i]))
    /\ [](\A i \in DOMAIN srcs :
            /\ srcs[i].term = SignalDue(srcs[i])
            /\ (srcs[i].st = "Failed" /\ srcs[i].binds = 1 => srcs[i].err # nil))
    /\ [][ \A i \in DOMAIN srcs :
            srcs[i].term # <<>> =>
                /\ srcs'[i].term = srcs[i].term
                /\ srcs'[i].emitted = srcs[i].emitted
                /\ srcs'[i].pos = srcs[i].pos
        ]_vars

\* Both sources of a batch have ended, one exhausted after its last record
\* and one failed with lines still unread.
C12_Witness ==
    /\ Len(srcs) = 2
    /\ srcs[1].term = << Signal("Exhausted", nil) >> /\ srcs[1].emitted # <<>>
    /\ srcs[2].term = << Signal("Failed", ErrRead) >>
    /\ srcs[2].pos < Len(world[srcs[2].path].lines)

----------------------------------------------------------------------------
(* Properties of opened sources *)

\* A handle that went through open and sample read: a resolved source, or one
\* whose detection failed.
WasOpened(s) == s.st \in { "Detecting", "Streaming", "Exhausted", "Failed" }

\* C13: an opened source reports size -1 exactly when its origin is gzip
\* data (the stored bytes start with 1F 8B) or the standard input; a file
\* that is not gzip data reports the number of bytes stored under its path.
C13_SizeUnknownIffGzipOrStream ==
    \A i \in DOMAIN srcs :
        WasOpened(srcs[i]) =>
            LET file == world[srcs[i].path] IN
            /\ srcs[i].size = -1 <=> (srcs[i].origin = "stdin" \/ HasMagic(file.raw))
            /\ (srcs[i].origin = "file" /\ ~HasMagic(file.raw)) =>
                  srcs[i].size = Len(file.raw)

\* A gzip file under a name without the gzip suffix resolved with size -1.
C13_Witness ==
    \E i \in DOMAIN srcs :
        /\ srcs[i].st = "Streaming" /\ srcs[i].size = -1
        /\ world[srcs[i].path].stored = "gzip" /\ world[srcs[i].path].name = "f.log"
        /\ Len(world[srcs[i].path].content) = MaxBytes

\* The round trip for a file i of the given contents: written gzip-compressed
\* it is read back as written; written plain, and not itself starting with
\* the magic, it is opened and passed through as stored.
RoundTrip(i) ==
    LET file == world[srcs[i].path] IN
    /\ file.stored = "gzip" =>
          /\ srcs[i].st # "OpenFailed"
          /\ IsPrefix(srcs[i].got, file.content)
          /\ (srcs[i].st = "Exhausted" => srcs[i].got = file.content)
          /\ srcs[i].err # ErrRead
    /\ (file.stored = "plain" /\ file.exists /\ ~HasMagic(file.content)) =>
          /\ srcs[i].st # "OpenFailed"
          /\ IsPrefix(srcs[i].got, file.content)
          /\ (srcs[i].st = "Exhausted" => srcs[i].got = file.content)
          /\ srcs[i].err # ErrRead

\* The round trip holds for every content of at least one byte, whatever the
\* name of the file.
RoundTripOfNonEmpty ==
    \A i \in DOMAIN srcs :
        (srcs[i].origin = "file" /\ world[srcs[i].path].content # <<>>) => RoundTrip(i)

\* C14 as stated: lines written to a gzip file are read back through Open
\* exactly as the same content stored uncompressed is; gzip is recognised by
\* the magic bytes, not by the name, and any other content is passed through
\* unchanged.
C14_GzipRoundTrip ==
    \A i \in DOMAIN srcs : srcs[i].origin = "file" => RoundTrip(i)

\* A file of no bytes, stored uncompressed, fails to open with EOF.
C14_Witness ==
    \E i \in DOMAIN srcs :
        /\ world[srcs[i].path].exists /\ world[srcs[i].path].stored = "plain"
        /\ world[srcs[i].path].content = <<>>
        /\ srcs[i].st = "OpenFailed" /\ srcs[i].err = ErrEOF

\* The bytes of a source as its origin holds them: the content of a gzip
\* member on disk, else the stored or piped bytes.
Source(file) ==
    IF file.stored # "pipe" /\ HasMagic(file.raw) THEN Inflate(file.raw, 0).bytes
    ELSE file.raw

RECURSIVE FirstLineFrom(_, _)
FirstLineFrom(bytes, k) ==
    IF k > Len(bytes) THEN bytes
    ELSE IF bytes[k] = "nl" THEN SubSeq(bytes, 1, k)
    ELSE FirstLineFrom(bytes, k + 1)

\* The bytes up to and including the first newline.
FirstLine(bytes) == FirstLineFrom(bytes, 1)

HasLine(bytes) == \E k \in DOMAIN bytes : bytes[k] = "nl"

\* C15: neither the two-byte peek nor the sample read takes input away from
\* the consumer.  For files, gzip files and the standard input the sample is
\* the start of the source, what the consumer has received is at every moment
\* the start of the source, its first line is the first line of the source,
\* and at the end of the input it has received every byte, once, in order.
C15_PeekAndSampleConsumeNothing ==
    \A i \in DOMAIN srcs :
        WasOpened(srcs[i]) =>
            LET src == Source(world[srcs[i].path]) IN
            /\ srcs[i].buf = SubSeq(src, 1, Min(SampleBytes, Len(src)))
            /\ IsPrefix(srcs[i].got, src)
            /\ (HasLine(srcs[i].got) => FirstLine(srcs[i].got) = FirstLine(src))
            /\ (srcs[i].st = "Exhausted" => srcs[i].got = src)

\* A gzip file longer than the sample was read to its end, first line first.
C15_Witness ==
    \E i \in DOMAIN srcs :
        /\ srcs[i].st = "Exhausted" /\ srcs[i].reader.kind = "gzip"
        /\ Len(srcs[i].got) > SampleBytes
        /\ Len(srcs[i].buf) = SampleBytes
        /\ FirstLine(srcs[i].got) = << "a", "nl" >>

\* C16: the closer is idempotent.  Whatever path the source took (streamed
\* to its end, failed detection, failed mid-stream, cancelled while
\* Streaming), a call of the closer leaves neither the file handle nor the
\* decompressor open and reports no failure, and a repeated call changes
\* nothing but the count of calls.  A source that failed to open holds no
\* open handle either.
C16_CloserIdempotent ==
    /\ [](\A i \in DOMAIN srcs :
            /\ (srcs[i].closes >= 1 =>
                  ~srcs[i].fileOpen /\ ~srcs[i].gzOpen /\ srcs[i].cerr = nil)
            /\ (srcs[i].st = "OpenFailed" => ~srcs[i].fileOpen /\ ~srcs[i].gzOpen))
    /\ [][ \A i \in DOMAIN srcs :
            (srcs[i].closes >= 1 /\ srcs'[i].closes # srcs[i].closes) =>
                srcs'[i] = [srcs[i] EXCEPT !.closes = @ + 1]
        ]_vars

\* The closer of a gzip source that failed mid-stream was called twice.
C16_Witness ==
    \E i \in DOMAIN srcs :
        /\ srcs[i].reader.kind = "gzip"
        /\ srcs[i].st = "Failed" /\ srcs[i].err = ErrRead
        /\ srcs[i].closes = 2

----------------------------------------------------------------------------
(* Properties of the failures of a batch *)

\* The error kinds with which detection fails (DetectionFailed, with the
\* underlying error), as against OpenError and ReadError.
DetectionKinds == { "NoMatch", "SniffFailed", "CompileError", "UnknownFormat" }

FailedToOpen(s) == s.st = "OpenFailed"
FailedToDetect(s) == s.st = "Failed" /\ s.binds = 0
FailedMidStream(s) == s.st = "Failed" /\ s.binds = 1

\* The report r tells of source s: its name, its location, its error.
Tells(r, s) == r.name = s.name /\ r.path = s.path /\ r.err = s.err
Reported(s) == \E r \in out : Tells(r, s)

Resolved == { i \in DOMAIN srcs : srcs[i].binds = 1 }
FailedInResolve == { i \in DOMAIN srcs : FailedToOpen(srcs[i]) \/ FailedToDetect(srcs[i]) }

\* Whether location i resolves when the batch is run with the options c.
ResolvesUnder(c, i) ==
    LET file == world[srcs[i].path] IN
    /\ file.exists
    /\ NewLogFactory([lines |-> Take(file.lines, SampleLines), sniff |-> file.sniff],
                     BatchOpts(c)).err = nil

\* What Resolve returns for the batch under the options c.
ResultUnder(c) == { i \in DOMAIN srcs : ResolvesUnder(c, i) }

\* The options c leave the fate of every single location as it is under cfg.
SameDetection(c) ==
    \A i \in DOMAIN srcs : ResolvesUnder(c, i) <=> ResolvesUnder(cfg, i)

\* What the batch does whatever the options: the result holds exactly the
\* sources that resolved, and every failure is reported.
SkipAndContinue ==
    pc = "run" =>
        /\ Resolved = ResultUnder(cfg)
        /\ \A i \in FailedInResolve : Reported(srcs[i])

\* C19 as stated: the outcome of a batch with a failing source follows a
\* policy the caller selects.  Skip-and-continue returns exactly the sources
\* that resolved and reports the failure; and for the same batch there is a
\* setting of the options, abort-the-batch, under which no source is returned.
C19_FailurePolicySelectable ==
    /\ SkipAndContinue
    /\ (pc = "run" /\ FailedInResolve # {} /\ Resolved # {}) =>
          \E c \in BatchConfigs \cup ApiConfigs : SameDetection(c) /\ ResultUnder(c) = {}

\* One source of the batch failed and the other was returned.
C19_Witness ==
    /\ pc = "run" /\ Len(srcs) = 2
    /\ FailedToDetect(srcs[1]) /\ srcs[2].st = "Streaming"

\* The window of every source is the one the caller configured.
WindowAsConfigured ==
    \A i \in DOMAIN srcs :
        srcs[i].window = IF srcs[i].binds = 1 THEN ConfiguredWindow ELSE 0

\* C20 as stated: the window of every resolved source is the configured
\* window, 0 when none was given, and is never negative, whatever the options,
\* a negative value passed to WithWindow included.
C20_WindowNeverNegative ==
    /\ WindowAsConfigured
    /\ \A i \in DOMAIN srcs : srcs[i].window >= 0

\* A source resolved with WithWindow(-1) carries the window -1 and closes a
\* time point later than any it has emitted.
C20_Witness ==
    \E i \in DOMAIN srcs :
        /\ cfg.caller = "api" /\ srcs[i].st = "Streaming"
        /\ srcs[i].window = -1
        /\ srcs[i].emitted # <<>>
        /\ Closed(srcs[i], srcs[i].last + 1)

----------------------------------------------------------------------------
(* Epoch timestamps (timez)                                                *)
(*                                                                         *)
(* A captured digit string is the sequence of its decimal digits, most     *)
(* significant first, so that instants of 19 digits are exact: multiplying *)
(* by a power of ten appends zeros.                                        *)

DigitZeros(k) == [i \in 1..k |-> 0]

\* math.MaxInt64, 9223372036854775807
Int64Max == << 9,2,2,3,3,7,2,0,3,6, 8,5,4,7,7,5,8,0,7 >>

RECURSIVE DigitsLeq(_, _, _)
\* a <= b for digit strings of one length, compared from position i
DigitsLeq(a, b, i) ==
    IF i > Len(a) THEN TRUE
    ELSE IF a[i] # b[i] THEN a[i] < b[i]
    ELSE DigitsLeq(a, b, i + 1)

\* The value is representable in an int64.
FitsInt64(ds) ==
    \/ Len(ds) < Len(Int64Max)
    \/ Len(ds) = Len(Int64Max) /\ DigitsLeq(ds, Int64Max, 1)

ErrParse == [kind |-> "ParseError", of |-> ""]

Instant(ns, scale, err) == [ns |-> ns, scale |-> scale, err |-> err]

\* Zeros that turn a count of the unit into nanoseconds.
ScaleZeros(scale) ==
    CASE scale = "s" -> 9 [] scale = "ms" -> 6 [] scale = "us" -> 3 [] scale = "ns" -> 0

\* A fixed-scale epoch format (FmtEpochMillis is parseEpoch("ms", _)).
parseEpoch(scale, ds) ==
    IF ds = <<>> \/ ~FitsInt64(ds) \/ ~FitsInt64(ds \o DigitZeros(ScaleZeros(scale)))
    THEN Instant(<<>>, scale, ErrParse)
    ELSE Instant(ds \o DigitZeros(ScaleZeros(scale)), scale, nil)

\* The scale of a value by its number of digits: every scale spans three
\* more digits than the one before it.
epochScaleShifted(n) ==
    IF n <= 9 THEN "s" ELSE IF n <= 12 THEN "ms" ELSE IF n <= 15 THEN "us" ELSE "ns"

epochScale(n) ==
    IF n <= 10 THEN "s" ELSE IF n <= 13 THEN "ms" ELSE IF n <= 16 THEN "us" ELSE "ns"

\* FmtEpochAny
parseEpochAny(ds) == parseEpoch(epochScale(Len(ds)), ds)

\* Captured digit strings without leading zeros: a leading digit followed by
\* one repeated digit, and the values the catalog and the tests name.
Patterned(n, lead, fill) == [i \in 1..n |-> IF i = 1 THEN lead ELSE fill]

B1000 == << 1,0,0,0 >>
B42 == << 4,2 >>
\* "time":1735800000000000000
NanoExample == << 1,7,3,5,8 >> \o DigitZeros(14)
\* "time":1744570895480541, the example line of the first catalog entry
CatalogExample == << 1,7,4,4,5,7,0,8,9,5,4,8,0,5,4,1 >>

Captured ==
    { Patterned(n, lead, fill) : n \in 1..(Len(Int64Max) + 1), lead \in {1, 9}, fill \in {0, 7} }
        \cup { B1000, B42, NanoExample, CatalogExample }

EpochFormats == { "epochany", "epochmillis" }

EpochInit ==
    /\ cfg \in EpochFormats
    /\ data \in Captured
    /\ out = None
    /\ world = <<>> /\ srcs = <<>> /\ pc = "parse" /\ next = 0

\* The parse callback of the format applied to the captured text.
ParseEpochAny ==
    /\ pc = "parse" /\ cfg = "epochany"
    /\ out' = parseEpochAny(data)
    /\ pc' = "parsed"
    /\ UNCHANGED <<cfg, data, world, srcs, next>>

ParseEpochMillis ==
    /\ pc = "parse" /\ cfg = "epochmillis"
    /\ out' = parseEpoch("ms", data)
    /\ pc' = "parsed"
    /\ UNCHANGED <<cfg, data, world, srcs, next>>

EpochNext == ParseEpochAny \/ ParseEpochMillis

SpecEpoch == EpochInit /\ [][EpochNext]_vars

----------------------------------------------------------------------------
(* Properties of epoch timestamps *)

AnyParsed == pc = "parsed" /\ cfg = "epochany" /\ out.err = nil

\* The instant is the captured count of the unit, in nanoseconds.
ConvertedAs(scale) ==
    /\ out.scale = scale
    /\ out.ns = data \o DigitZeros(ScaleZeros(scale))

----------------------------------------------------------------------------
(* Format labels of a configuration file                                   *)

\* The labels a timestamps entry can carry.
Labels == Formats \cup Layouts \cup Misspelt

\* A configuration file with one or two timestamps entries.
LabelConfigs ==
    { [caller |-> "cli", regex |-> "", format |-> "", window |-> -1, skip |-> MaxTries,
       timestamps |-> ts] :
        ts \in { << FmtSpec(p, l) >> : p \in { "pA", "pB" }, l \in Labels }
                 \cup { << FmtSpec("pB", l), FmtSpec("pA", "fA") >> : l \in Labels } }

Unmapped == [opts |-> <<>>, mapped |-> FALSE, res |-> None]

LabelInit ==
    /\ cfg \in LabelConfigs
    /\ data \in { s \in Samples : ~s.sniff.ok }
    /\ out = Unmapped
    /\ world = <<>> /\ srcs = <<>> /\ pc = "config" /\ next = 0

\* Config.ResolveOpts and cli.tsOpts: every entry becomes a FmtSpec, whatever
\* its label.
MapLabels ==
    /\ pc = "config"
    /\ out' = [out EXCEPT !.opts = tsOpts(cfg), !.mapped = TRUE]
    /\ pc' = "detect"
    /\ UNCHANGED <<cfg, data, world, srcs, next>>

\* Detection on the sample of a source under the mapped options.
BindLabel ==
    /\ pc = "detect"
    /\ out' = [out EXCEPT !.res = NewLogFactory(data, out.opts)]
    /\ pc' = "bound"
    /\ UNCHANGED <<cfg, data, world, srcs, next>>

LabelNext == MapLabels \/ BindLabel

SpecLabel == LabelInit /\ [][LabelNext]_vars

----------------------------------------------------------------------------
(* Properties of format labels *)

\* The labels of the fallback list handed to detection.
MappedLabels == { parseOpts(out.opts).stampRegex[i].Format : i \in DOMAIN parseOpts(out.opts).stampRegex }

\* The closed set of the claim: the named labels and the layouts a caller
\* supplies.
Recognised == Formats \cup Layouts

\* C22 as stated: a label of the configuration either is a recognised one,
\* with one parser, or is refused with an "unrecognized label" error; no
\* source is bound to a label outside the recognised ones.
C22_LabelsClosed ==
    /\ out.mapped =>
          \A l \in MappedLabels :
              \/ l \in Recognised /\ GetTimestampFormat(l) = nil
              \/ l \notin Recognised /\ GetTimestampFormat(l) = ErrUnknownFormat(l)
    /\ (pc = "bound" /\ out.res.err = nil) => out.res.factory.format \in Recognised

\* Detection only ever fails over a label with the error of a line that did
\* not match, never with an error naming the label.
LabelNeverRefused ==
    pc = "bound" => out.res.err.kind \in { "nil", "NoMatch" }

\* A misspelt name went through detection unnoticed: the source failed for a
\* line that did not match.
C22_Witness ==
    /\ pc = "bound" /\ data.lines # <<>>
    /\ MappedLabels \subseteq Misspelt
    /\ out.res.err = ErrNoMatch

----------------------------------------------------------------------------
(* Properties of the result of Resolve *)

\* The returned sources that carry the name and read the location of slot i.
ReturnedFor(i) ==
    { k \in DOMAIN data : data[k].name = srcs[i].name /\ data[k].path = srcs[i].path }

Named(n) == { k \in DOMAIN data : data[k].name = n }

\* C23: Resolve returns exactly one source for every location that opens and
\* detects, under the name of its descriptor, none for a location that fails
\* and none for a location that was not listed; a descriptor contributes as
\* many sources as it has resolvable locations.
C23_OnePerResolvedLocation ==
    pc = "run" =>
        /\ \A i \in DOMAIN srcs :
              Cardinality(ReturnedFor(i)) = IF ResolvesUnder(cfg, i) THEN 1 ELSE 0
        /\ \A k \in DOMAIN data : \E i \in DOMAIN srcs : k \in ReturnedFor(i)
        /\ \A i \in DOMAIN srcs :
              Cardinality(Named(srcs[i].name)) =
                  Cardinality({ j \in DOMAIN srcs :
                                  srcs[j].name = srcs[i].name /\ ResolvesUnder(cfg, j) })

\* A descriptor with two resolvable locations contributed two sources.
C23_Witness ==
    /\ pc = "run" /\ Len(srcs) = 2 /\ srcs[1].name = srcs[2].name
    /\ Len(data) = 2 /\ data[1].name = "a" /\ data[2].name = "a"
    /\ data[1].path # data[2].path

----------------------------------------------------------------------------
(* Properties of a source whose detection failed *)

\* Source i emits a record in this step.
Emits(i) == srcs'[i].emitted # srcs[i].emitted

\* C24: a source whose detection failed was handed no extraction function
\* and has emitted nothing, and a record is only ever emitted by a source that
\* is Streaming with an extraction function bound to it.
C24_FailedNeverEmits ==
    /\ [](\A i \in DOMAIN srcs :
            FailedToDetect(srcs[i]) =>
                /\ NewLogFactory(srcs[i].sample, BatchOpts(cfg)).err # nil
                /\ NewLogFactory(srcs[i].sample, BatchOpts(cfg)).factory = NoFactory
                /\ srcs[i].factory = NoFactory
                /\ srcs[i].emitted = <<>>)
    /\ [][\A i \in DOMAIN srcs :
            Emits(i) =>
                /\ srcs[i].st = "Streaming" /\ srcs'[i].st = "Streaming"
                /\ srcs[i].factory # NoFactory
                /\ srcs[i].binds = 1]_vars

\* The first source failed detection on lines that carry timestamps, and the
\* second source of the batch has emitted records since.
C24_Witness ==
    /\ pc = "run" /\ Len(srcs) = 2
    /\ FailedToDetect(srcs[1])
    /\ \E k \in DOMAIN world[srcs[1].path].lines : world[srcs[1].path].lines[k].ok
    /\ srcs[2].emitted # <<>>

----------------------------------------------------------------------------
(* The progress counters of a run (ux.UxWasmT)                             *)
(*                                                                         *)
(* data is the UxWasmT value, world the engine's side (its line counter    *)
(* and kill channel), srcs the goroutines that report rules and problems,  *)
(* next the position of the lines tracker goroutine, pc the position of    *)
(* the caller of FinalStats, out the statistics it returns.                *)

MaxCalls == 2      \* tracker calls of one producing goroutine
MaxCounted == 2    \* lines the engine counts
Producers == 1..2

Counters == { "Rules", "Problems" }

\* NewUxWasm
NewUxWasm == [mux |-> 0, Rules |-> 0, Problems |-> 0, Lines |-> 0, done |-> FALSE]

Producer(left) == [at |-> "idle", ctr |-> "Rules", tmp |-> 0, left |-> left]

NoStats == [rules |-> -1, problems |-> -1, lines |-> -1, via |-> ""]

StatsInit ==
    /\ cfg \in [Producers -> 1..MaxCalls]
    /\ data = NewUxWasm
    /\ world = [lines |-> 0, killed |-> FALSE]
    /\ srcs = [p \in Producers |-> Producer(cfg[p])]
    /\ next = 1
    /\ pc = "idle"
    /\ out = NoStats

\* IncrementRuleTracker, IncrementProblemsTracker: u.mux.Lock(), then the
\* load of u.Rules++.
IncrementBegin(p, ctr) ==
    /\ srcs[p].at = "idle" /\ srcs[p].left > 0
    /\ data.mux = 0
    /\ data' = [data EXCEPT !.mux = p]
    /\ srcs' = [srcs EXCEPT ![p].at = "loaded", ![p].ctr = ctr, ![p].tmp = data[ctr]]
    /\ UNCHANGED <<cfg, out, world, pc, next>>

\* The store of u.Rules++.
IncrementStore(p) ==
    /\ srcs[p].at = "loaded"
    /\ data' = [data EXCEPT ![srcs[p].ctr] = srcs[p].tmp + 1]
    /\ srcs' = [srcs EXCEPT ![p].at = "stored"]
    /\ UNCHANGED <<cfg, out, world, pc, next>>

\* defer u.mux.Unlock()
IncrementEnd(p) ==
    /\ srcs[p].at = "stored"
    /\ data' = [data EXCEPT !.mux = IF @ = p THEN 0 ELSE @]
    /\ srcs' = [srcs EXCEPT ![p].at = "idle", ![p].left = @ - 1]
    /\ UNCHANGED <<cfg, out, world, pc, next>>

\* The engine counts a line: lines.Add(1) on its atomic counter.
CountLine ==
    /\ ~world.killed /\ world.lines < MaxCounted
    /\ world' = [world EXCEPT !.lines = @ + 1]
    /\ UNCHANGED <<cfg, data, out, srcs, pc, next>>

\* The run ends: every producing goroutine has returned and the engine
\* closes killCh.
CloseKillCh ==
    /\ ~world.killed
    /\ \A p \in Producers : srcs[p].at = "idle" /\ srcs[p].left = 0
    /\ world' = [world EXCEPT !.killed = TRUE]
    /\ UNCHANGED <<cfg, data, out, srcs, pc, next>>

\* StartLinesTracker's goroutine after <-killCh: u.Lines.Store(lines.Load())
TrackerStore ==
    /\ next = 1 /\ world.killed
    /\ data' = [data EXCEPT !.Lines = world.lines]
    /\ next' = 2
    /\ UNCHANGED <<cfg, out, world, srcs, pc>>

\* close(u.done)
TrackerClose ==
    /\ next = 2
    /\ data' = [data EXCEPT !.done = TRUE]
    /\ next' = 3
    /\ UNCHANGED <<cfg, out, world, srcs, pc>>

\* FinalStats is called and starts its timer.
FinalStatsCall ==
    /\ pc = "idle"
    /\ pc' = "wait"
    /\ UNCHANGED <<cfg, data, out, world, srcs, next>>

\* case <-u.done
FinalStatsDone ==
    /\ pc = "wait" /\ data.done
    /\ pc' = "readRules" /\ out' = [out EXCEPT !.via = "done"]
    /\ UNCHANGED <<cfg, data, world, srcs, next>>

\* case <-timeout.C: the timer fires before done is closed.
FinalStatsTimeout ==
    /\ pc = "wait" /\ ~data.done
    /\ pc' = "readRules" /\ out' = [out EXCEPT !.via = "timeout"]
    /\ UNCHANGED <<cfg, data, world, srcs, next>>

\* "rules": u.Rules, read without u.mux
FinalStatsRules ==
    /\ pc = "readRules"
    /\ out' = [out EXCEPT !.rules = data.Rules]
    /\ pc' = "readProblems"
    /\ UNCHANGED <<cfg, data, world, srcs, next>>

\* "problems": u.Problems, read without u.mux
FinalStatsProblems ==
    /\ pc = "readProblems"
    /\ out' = [out EXCEPT !.problems = data.Problems]
    /\ pc' = "readLines"
    /\ UNCHANGED <<cfg, data, world, srcs, next>>

\* "lines": u.Lines.Load()
FinalStatsLines ==
    /\ pc = "readLines"
    /\ out' = [out EXCEPT !.lines = data.Lines]
    /\ pc' = "returned"
    /\ UNCHANGED <<cfg, data, world, srcs, next>>

StatsNext ==
    \/ \E p \in Producers, ctr \in Counters : IncrementBegin(p, ctr)
    \/ \E p \in Producers : IncrementStore(p)
    \/ \E p \in Producers : IncrementEnd(p)
    \/ CountLine
    \/ CloseKillCh
    \/ TrackerStore
    \/ TrackerClose
    \/ FinalStatsCall
    \/ FinalStatsDone
    \/ FinalStatsTimeout
    \/ FinalStatsRules
    \/ FinalStatsProblems
    \/ FinalStatsLines

SpecStats == StatsInit /\ [][StatsNext]_vars

----------------------------------------------------------------------------
(* Properties of the progress counters *)

\* FinalStats is about to read the counter, holding no lock, while a
\* producing goroutine is about to store into it.
Racing(ctr) ==
    /\ pc = IF ctr = "Rules" THEN "readRules" ELSE "readProblems"
    /\ \E p \in Producers : srcs[p].at = "loaded" /\ srcs[p].ctr = ctr

Returned == (cfg[1] - srcs[1].left) + (cfg[2] - srcs[2].left)

\* The increments go through the one lock and none is lost.
NoIncrementLost ==
    /\ Cardinality({ p \in Producers : srcs[p].at # "idle" }) <= 1
    /\ (\A p \in Producers : srcs[p].at \in { "idle", "loaded" }) =>
          data.Rules + data.Problems = Returned

\* C25 as stated: FinalStats never reads a counter without synchronisation
\* while a producer may still be updating it, and no increment is lost.
C25_CountersSynchronised ==
    /\ \A ctr \in Counters : ~Racing(ctr)
    /\ NoIncrementLost

\* FinalStats timed out and returned a count of problems that a producing
\* goroutine, still running, has raised since.
C25_Witness ==
    /\ pc = "returned" /\ out.via = "timeout"
    /\ out.problems < data.Problems
    /\ \E p \in Producers : srcs[p].left > 0

----------------------------------------------------------------------------
(* Runbook: the actions run on the entries of a report                     *)
(*                                                                         *)
(* cfg is the runbook configuration file, data the report, srcs the built  *)
(* actions, next the position of the two loops of Runbook, out the calls   *)
(* of Execute made so far, world the error Runbook returns.                *)

MaxActions == 2    \* actions in a configuration file
MaxEntries == 2    \* entries in a report

\* A value that is missing or is not a string.
Absent == "(absent)"

\* A report entry: ev["cre"] is missing, a map or a struct; id and ID are
\* the entries or the field of that name, top is ev["id"]; fails tells whether
\* the action proper returns an error on the entry.
Entry(cre, id, ID, top, fails) ==
    [cre |-> cre, id |-> id, ID |-> ID, top |-> top, fails |-> fails]

ReportEntries ==
    { Entry("map", "CRE-1", Absent, Absent, f) : f \in BOOLEAN }
      \cup { Entry("map", "CRE-2", Absent, Absent, f) : f \in BOOLEAN }
      \cup { Entry("map", "", Absent, "CRE-1", FALSE),
             Entry("map", Absent, "CRE-1", Absent, FALSE),
             Entry("struct", Absent, Absent, "CRE-1", FALSE),
             Entry("struct", Absent, "CRE-2", "CRE-1", FALSE),
             Entry("none", Absent, Absent, Absent, FALSE) }

extractCreId(ev) ==
    IF ev.cre = "map" /\ ev.id # Absent THEN ev.id
    ELSE IF ev.cre = "map" /\ ev.ID # Absent THEN ev.ID
    ELSE IF ev.cre = "struct" /\ ev.ID # Absent THEN ev.ID
    ELSE IF ev.top # Absent THEN ev.top
    ELSE ""

\* regexp.MatchString for the patterns "CRE-1" and ".*"
MatchString(pattern, id) ==
    \/ pattern = ".*"
    \/ pattern = "CRE-1" /\ id = "CRE-1"

ErrAction == [kind |-> "ActionError", of |-> ""]
ErrConfig(type) == [kind |-> "ConfigError", of |-> type]

Called(ran, err) == [ran |-> ran, err |-> err]

\* Execute of a slack, jira, linear or exec action.
innerExecute(ev) == Called(TRUE, IF ev.fails THEN ErrAction ELSE nil)

\* The id is not checked for being empty.
filteredExecuteAnyId(pattern, ev) ==
    IF pattern = "" THEN innerExecute(ev)
    ELSE IF MatchString(pattern, extractCreId(ev)) THEN innerExecute(ev)
    ELSE Called(FALSE, nil)

\* filteredAction.Execute; the pattern "" stands for f.pattern == nil.
filteredExecute(pattern, ev) ==
    IF pattern = "" THEN innerExecute(ev)
    ELSE IF extractCreId(ev) # "" /\ MatchString(pattern, extractCreId(ev)) THEN innerExecute(ev)
    ELSE Called(FALSE, nil)

\* An entry of the actions list: its type, whether the section of that type
\* is present and accepted by the constructor, and its regex.
ActionConfig(type, section, regex) == [Type |-> type, section |-> section, Regex |-> regex]

ActionTypes == { "slack", "jira", "linear", "exec" }

ActionConfigs ==
    { ActionConfig("exec", TRUE, ""), ActionConfig("slack", TRUE, "CRE-1"),
      ActionConfig("jira", TRUE, ".*"), ActionConfig("exec", TRUE, "("),
      ActionConfig("mail", TRUE, ""), ActionConfig("linear", FALSE, "") }

Built(actions, err) == [actions |-> actions, err |-> err]

RECURSIVE buildFrom(_, _, _)
\* The loop of buildActions from entry i on.
buildFrom(cs, i, acc) ==
    IF i > Len(cs) THEN Built(acc, nil)
    ELSE IF cs[i].Type \notin ActionTypes \/ ~cs[i].section \/ ~Compiles(cs[i].Regex)
    THEN Built(<<>>, ErrConfig(cs[i].Type))
    ELSE buildFrom(cs, i + 1, Append(acc, [wrapped |-> cs[i].Regex # "", pattern |-> cs[i].Regex]))

buildActions(c) ==
    IF ~c.readable THEN Built(<<>>, ErrConfig("")) ELSE buildFrom(c.actions, 1, <<>>)

\* a.Execute(ctx, cre) on a built action
Execute(a, ev) == IF a.wrapped THEN filteredExecute(a.pattern, ev) ELSE innerExecute(ev)

\* The loops go on whatever Execute returned.
afterExecuteGoOn(err) == "run"

\* if err := a.Execute(ctx, cre); err != nil { return err }
afterExecute(err) == IF err # nil THEN "done" ELSE "run"

RunbookInit ==
    /\ cfg \in { [readable |-> r, actions |-> as] :
                   r \in BOOLEAN, as \in SeqsUpTo(ActionConfigs, MaxActions) }
    /\ data \in SeqsUpTo(ReportEntries, MaxEntries)
    /\ srcs = <<>>
    /\ next = [a |-> 1, e |-> 1]
    /\ out = <<>>
    /\ world = nil
    /\ pc = "build"

BuildActions ==
    /\ pc = "build"
    /\ LET b == buildActions(cfg) IN
       /\ srcs' = b.actions
       /\ world' = b.err
       /\ pc' = IF b.err # nil THEN "done" ELSE "run"
    /\ UNCHANGED <<cfg, data, out, next>>

\* One turn of the inner loop of Runbook.
ExecuteEntry ==
    /\ pc = "run"
    /\ next.a <= Len(srcs) /\ next.e <= Len(data)
    /\ LET r == Execute(srcs[next.a], data[next.e]) IN
       /\ out' = Append(out, [a |-> next.a, e |-> next.e, ran |-> r.ran, err |-> r.err])
       /\ pc' = afterExecute(r.err)
       /\ world' = IF afterExecute(r.err) = "done" THEN r.err ELSE world
       /\ next' = IF next.e < Len(data) THEN [next EXCEPT !.e = @ + 1]
                  ELSE [a |-> next.a + 1, e |-> 1]
    /\ UNCHANGED <<cfg, data, srcs>>

\* Both loops are over: return nil.
RunbookReturn ==
    /\ pc = "run"
    /\ next.a > Len(srcs) \/ data = <<>>
    /\ pc' = "done"
    /\ UNCHANGED <<cfg, data, out, world, srcs, next>>

RunbookNext == BuildActions \/ ExecuteEntry \/ RunbookReturn

SpecRunbook == RunbookInit /\ [][RunbookNext]_vars

----------------------------------------------------------------------------
(* Properties of the runbook *)

\* The CRE id of an entry as the test of extractCreId fixes it: the id of
\* the cre map, the ID field of the cre struct, else the top-level id.
CreId(ev) ==
    CASE ev.cre = "map" /\ ev.id # Absent -> ev.id
      [] ev.cre = "map" /\ ev.id = Absent /\ ev.ID # Absent -> ev.ID
      [] ev.cre = "struct" /\ ev.ID # Absent -> ev.ID
      [] OTHER -> IF ev.top # Absent THEN ev.top ELSE ""

\* C26: a call of Execute on a built action runs the action proper exactly
\* when the action has no pattern or the entry's CRE id is not empty and
\* matches the pattern; a call that does not run it returns nil.
C26_FilterRunsOnMatchOnly ==
    \A k \in DOMAIN out :
        LET a == srcs[out[k].a]
            ev == data[out[k].e]
        IN  /\ out[k].ran <=>
                  \/ a.pattern = ""
                  \/ CreId(ev) # "" /\ MatchString(a.pattern, CreId(ev))
            /\ ~out[k].ran => out[k].err = nil
            /\ out[k].ran => out[k].err = IF ev.fails THEN ErrAction ELSE nil

\* An action whose pattern matches every text skipped an entry with an
\* empty CRE id and ran on an entry whose id is found at the top level.
C26_Witness ==
    \E k, l \in DOMAIN out :
        /\ srcs[out[k].a].pattern = ".*" /\ ~out[k].ran /\ CreId(data[out[k].e]) = ""
        /\ srcs[out[l].a].pattern = ".*" /\ out[l].ran /\ data[out[l].e].cre = "struct"

\* The calls of Execute in the order of the two loops.
RECURSIVE Schedule(_, _, _, _)
Schedule(a, e, na, ne) ==
    IF a > na \/ ne = 0 THEN <<>>
    ELSE << [a |-> a, e |-> e] >>
           \o (IF e < ne THEN Schedule(a, e + 1, na, ne) ELSE Schedule(a + 1, 1, na, ne))

Invalid(c) == c.Type \notin ActionTypes \/ ~c.section \/ ~Compiles(c.Regex)

\* C30: nothing is executed unless every action of the configuration was
\* built; the calls of Execute follow the configuration order and, within an
\* action, the report order; only the last call can have failed, and its
\* error ends the run and is what Runbook returns.
C30_BuildThenRunInOrder ==
    /\ (~cfg.readable \/ \E i \in DOMAIN cfg.actions : Invalid(cfg.actions[i])) =>
          out = <<>> /\ (pc = "done" => world # nil)
    /\ pc = "build" => out = <<>>
    /\ out # <<>> => Len(srcs) = Len(cfg.actions)
    /\ LET plan == Schedule(1, 1, Len(srcs), Len(data)) IN
       /\ Len(out) <= Len(plan)
       /\ \A k \in DOMAIN out : out[k].a = plan[k].a /\ out[k].e = plan[k].e
       /\ \A k \in DOMAIN out : out[k].err # nil => k = Len(out) /\ pc = "done" /\ world = out[k].err
       /\ (pc = "done" /\ world = nil) => Len(out) = Len(plan)

\* The first action failed on the first entry of a report of two entries
\* with a second action configured: one call was made.
C30_Witness ==
    /\ pc = "done" /\ world = ErrAction
    /\ Len(srcs) = 2 /\ Len(data) = 2
    /\ Len(out) = 1

----------------------------------------------------------------------------
(* Properties of the closed floor *)

----------------------------------------------------------------------------
(* The detection report (ux.ReportT)                                       *)
(*                                                                         *)
(* data is the ReportT value, srcs the calls of AddCreHit made so far, out *)
(* the document CreateReport returns.                                      *)

MaxHits == 3       \* calls of AddCreHit

Cres == { "CRE-1", "CRE-2" }
HitTimes == { 1, 2 }

\* The entries of the n-th recorded hit: k entries, each its own.
HitEntries(n, k) == [j \in 1..k |-> [hit |-> n, entry |-> j]]

\* NewReport: no CRE has a hit; an empty sequence is a missing map entry.
NewReport ==
    [CreHits |-> [c \in Cres |-> <<>>],
     Hits |-> [c \in Cres |-> [t \in HitTimes |-> <<>>]]]

ReportInit ==
    /\ data = NewReport
    /\ srcs = <<>>
    /\ out = <<>>
    /\ pc = "adding"
    /\ cfg = 0 /\ world = <<>> /\ next = 0

\* ReportT.AddCreHit(cre, hit, m)
AddCreHit(cre, hit, m) ==
    [CreHits |-> [data.CreHits EXCEPT ![cre] = Append(@, hit)],
     Hits |-> [data.Hits EXCEPT ![cre][hit] = m]]

AddHit ==
    /\ pc = "adding" /\ Len(srcs) < MaxHits
    /\ \E cre \in Cres, hit \in HitTimes, k \in 1..2 :
          LET m == HitEntries(Len(srcs) + 1, k) IN
          /\ data' = AddCreHit(cre, hit, m)
          /\ srcs' = Append(srcs, [cre |-> cre, hit |-> hit, m |-> m])
    /\ UNCHANGED <<cfg, out, world, pc, next>>

\* ReportT.Size
ReportSize == Cardinality({ c \in Cres : data.CreHits[c] # <<>> })

RECURSIVE matchHits(_, _, _)
\* for _, hit := range creHits { for _, e := range r.Hits[id][hit].Entries ... }
matchHits(id, creHits, i) ==
    IF i > Len(creHits) THEN <<>>
    ELSE data.Hits[id][creHits[i]] \o matchHits(id, creHits, i + 1)

\* One document of createReport.
Document(id) ==
    [id |-> id, timestamp |-> data.CreHits[id][1], hits |-> matchHits(id, data.CreHits[id], 1)]

\* The orders in which a range over the CreHits map can visit its keys.
Visits ==
    LET keys == { c \in Cres : data.CreHits[c] # <<>> } IN
    { v \in SeqsUpTo(Cres, Cardinality(Cres)) :
        /\ Len(v) = Cardinality(keys)
        /\ { v[i] : i \in DOMAIN v } = keys }

\* ReportT.CreateReport
CreateReport ==
    /\ pc = "adding"
    /\ \E v \in Visits : out' = [i \in DOMAIN v |-> Document(v[i])]
    /\ pc' = "reported"
    /\ UNCHANGED <<cfg, data, world, srcs, next>>

ReportNext == AddHit \/ CreateReport

SpecReport == ReportInit /\ [][ReportNext]_vars

----------------------------------------------------------------------------
(* Properties of the detection report *)

HitsOf(c) == { n \in DOMAIN srcs : srcs[n].cre = c }
DetectedCres == { c \in Cres : HitsOf(c) # {} }

\* The places of document d that hold entry e.
Holding(d, e) == { j \in DOMAIN d.hits : d.hits[j] = e }

\* Document d holds the entries of every recorded hit of its CRE once each
\* and nothing else.
HoldsEveryHitOnce(d) ==
    /\ \A n \in HitsOf(d.id) : \A j \in DOMAIN srcs[n].m :
          Cardinality(Holding(d, srcs[n].m[j])) = 1
    /\ \A j \in DOMAIN d.hits : \E n \in HitsOf(d.id) : d.hits[j].hit = n

OneDocumentPerCre ==
    /\ Len(out) = Cardinality(DetectedCres)
    /\ ReportSize = Cardinality(DetectedCres)
    /\ \A c \in DetectedCres : Cardinality({ i \in DOMAIN out : out[i].id = c }) = 1

\* C28 as stated: the report has one document per CRE with a hit, Size() is
\* that count, and each document holds the entries of every recorded hit
\* exactly once, two hits of one CRE at one timestamp included.
C28_ReportHoldsEveryHit ==
    pc = "reported" =>
        /\ OneDocumentPerCre
        /\ \A i \in DOMAIN out : HoldsEveryHitOnce(out[i])

\* What holds whatever the hits: one document per CRE with a hit, and every
\* hit held once in the document of a CRE whose hits have timestamps of
\* their own.
ReportOfDistinctTimes ==
    pc = "reported" =>
        /\ OneDocumentPerCre
        /\ \A i \in DOMAIN out :
              (\A n, k \in HitsOf(out[i].id) : n # k => srcs[n].hit # srcs[k].hit)
                  => HoldsEveryHitOnce(out[i])

\* Two hits of one CRE at one timestamp: the document holds the entries of
\* the second hit twice and none of the first.
C28_Witness ==
    /\ pc = "reported" /\ Len(srcs) = 2 /\ Len(out) = 1
    /\ srcs[1].cre = srcs[2].cre /\ srcs[1].hit = srcs[2].hit
    /\ out[1].hits = srcs[2].m \o srcs[2].m

----------------------------------------------------------------------------
(* Parsing a rules package (utils.ParseRules)                              *)
(*                                                                         *)
(* cfg is the stream of YAML documents, next the document the decoder is   *)
(* at, data the local state of ParseRules (dupes, config), pc its outcome. *)

MaxDocs == 2       \* documents in a stream

Rule(hash, id, cre) == [Hash |-> hash, Id |-> id, Cre |-> cre]

R1 == Rule("h1", "i1", "c1")
R2 == Rule("h2", "i2", "c2")
\* rules that repeat the hash, the metadata id, the CRE id of R1
SameHash == Rule("h1", "i3", "c3")
SameId == Rule("h4", "i1", "c4")
SameCre == Rule("h5", "i5", "c1")

\* The rules sections of a document.
RuleSections ==
    { <<>>, << R1 >>, << R2 >>, << R1, R2 >>, << R1, SameHash >>, << R1, SameId >>,
      << R2, SameCre >> }

\* A document: whether it decodes, whether it has a rules section and the
\* rules of it, its terms section ("none", "map" or a value that is no map).
Doc(ok, has, rules, terms) == [ok |-> ok, has |-> has, rules |-> rules, terms |-> terms]

Docs ==
    { Doc(FALSE, FALSE, <<>>, "none") }
      \cup { Doc(TRUE, FALSE, <<>>, t) : t \in { "none", "map", "list" } }
      \cup { Doc(TRUE, TRUE, r, t) : r \in RuleSections, t \in { "none", "map", "list" } }

ErrYaml == [kind |-> "YamlError", of |-> ""]
ErrDuplicate(what) == [kind |-> "Duplicate", of |-> what]
ErrTerms == [kind |-> "InvalidTerms", of |-> ""]
Panic == [kind |-> "panic", of |-> "assignment to entry in nil map"]

\* dupes: a map, or the nil map.
Dupes(isNil, keys) == [isNil |-> isNil, keys |-> keys]

Parsing(dupes, rules, terms, err) == [dupes |-> dupes, rules |-> rules, terms |-> terms, err |-> err]

RECURSIVE ruleLoop(_, _, _)
\* for _, rule := range rules: a lookup in the nil map finds nothing, an
\* assignment to it panics.
ruleLoop(rules, i, d) ==
    IF i > Len(rules) THEN [err |-> nil, dupes |-> d]
    ELSE IF rules[i].Hash \in d.keys THEN [err |-> ErrDuplicate("hash"), dupes |-> d]
    ELSE IF rules[i].Id \in d.keys THEN [err |-> ErrDuplicate("id"), dupes |-> d]
    ELSE IF rules[i].Cre \in d.keys THEN [err |-> ErrDuplicate("cre"), dupes |-> d]
    ELSE IF d.isNil THEN [err |-> Panic, dupes |-> d]
    ELSE ruleLoop(rules, i + 1,
                  Dupes(FALSE, d.keys \cup { rules[i].Hash, rules[i].Id, rules[i].Cre }))

\* case "rules": config.Rules = rules; dupes = nil
rulesSection(s, has, rules) ==
    IF s.err # nil \/ ~has THEN s
    ELSE LET l == ruleLoop(rules, 1, s.dupes) IN
         IF l.err # nil THEN [s EXCEPT !.err = l.err]
         ELSE [s EXCEPT !.rules = rules, !.dupes = Dupes(TRUE, {})]

\* case "terms": parseTerms
termsSection(s, terms) ==
    IF s.err # nil \/ terms = "none" THEN s
    ELSE IF terms = "map" THEN [s EXCEPT !.terms = "map"]
    ELSE [s EXCEPT !.err = ErrTerms]

RulesInit ==
    /\ cfg \in SeqsUpTo(Docs, MaxDocs)
    /\ next = 1
    /\ data = Parsing(Dupes(FALSE, {}), <<>>, "none", nil)
    /\ pc = "parsing"
    /\ out = <<>>
    /\ world = <<>> /\ srcs = <<>>

\* One turn of the loop: decode a document and range over its sections, in
\* either order.
DecodeDocument ==
    /\ pc = "parsing" /\ next <= Len(cfg)
    /\ IF ~cfg[next].ok
       THEN data' = [data EXCEPT !.err = ErrYaml]
       ELSE \E rulesFirst \in BOOLEAN :
               data' = IF rulesFirst
                       THEN termsSection(rulesSection(data, cfg[next].has, cfg[next].rules),
                                         cfg[next].terms)
                       ELSE rulesSection(termsSection(data, cfg[next].terms),
                                         cfg[next].has, cfg[next].rules)
    /\ pc' = IF data'.err = nil THEN "parsing"
             ELSE IF data'.err = Panic THEN "panic" ELSE "error"
    /\ next' = next + 1
    /\ out' = Append(out, data'.err)
    /\ UNCHANGED <<cfg, world, srcs>>

\* case io.EOF: return config, nil
ParseRulesReturn ==
    /\ pc = "parsing" /\ next > Len(cfg)
    /\ pc' = "returned"
    /\ UNCHANGED <<cfg, data, out, world, srcs, next>>

RulesNext == DecodeDocument \/ ParseRulesReturn

SpecRules == RulesInit /\ [][RulesNext]_vars

----------------------------------------------------------------------------
(* Properties of ParseRules *)

\* The rules of the documents decoded so far, in stream order.
RECURSIVE RulesUpTo(_)
RulesUpTo(n) ==
    IF n = 0 THEN <<>>
    ELSE RulesUpTo(n - 1)
           \o (IF cfg[n].ok /\ cfg[n].has THEN cfg[n].rules ELSE <<>>)

Ids(r) == { r.Hash, r.Id, r.Cre }

\* A rule of the sequence repeats an identifier of an earlier one.
Repeats(rs) == \E j, k \in DOMAIN rs : j < k /\ Ids(rs[j]) \cap Ids(rs[k]) # {}

\* C29 as stated: ParseRules ends with a rule set or an error and never in a
\* crash, and it returns no rule set for a stream in which a rule repeats an
\* identifier seen earlier, in a later rules section as well.
C29_ParseRulesNeverCrashes ==
    /\ pc # "panic"
    /\ pc = "returned" => ~Repeats(RulesUpTo(Len(cfg)))

\* What holds of a stream with a single rules section: a repeated
\* identifier is rejected with the duplicate error and nothing crashes.
SingleSectionChecked ==
    Cardinality({ n \in DOMAIN cfg : cfg[n].ok /\ cfg[n].has }) <= 1 =>
        /\ pc # "panic"
        /\ pc = "returned" => ~Repeats(RulesUpTo(Len(cfg)))
        /\ (pc = "error" /\ data.err.kind = "Duplicate") => Repeats(RulesUpTo(Len(cfg)))

\* The second document carries a rules section that repeats a rule of the
\* first: ParseRules panicked.
C29_Witness ==
    /\ pc = "panic" /\ Len(cfg) = 2
    /\ cfg[1].rules = << R1 >> /\ cfg[2].rules = << R1 >>

====
